---- MODULE Spec2Model ----
(***************************************************************************)
(* A model of the tic-tac-toe game engine of ttt.py (class TicTacToeGUI):  *)
(* the board, win/tie detection, scoring, the turn handlers of the PvP and *)
(* PvPC modes, the computer's move selection (random, center, strategy),   *)
(* and the timer-driven autoplay series.                                   *)
(*                                                                         *)
(* Every Tk callback (a click, a key, a Radiobutton/Button command, an     *)
(* after()/after_idle() callback) is one atomic action: Tk runs callbacks  *)
(* one at a time on a single thread.                                       *)
(*                                                                         *)
(* Points are kept in HALF points, so that the 0.5 of a tie is an integer: *)
(* p1_points = 2 means one win, p1_points = 1 means one tie.               *)
(***************************************************************************)
EXTENDS Integers, Sequences, FiniteSets, TLC

\* ------------------------------------------------------------------ bounds
\* Once a game is on the score board, only this many turns of a further game
\* are played (a mode change or a new series clears the score board).
LaterTurns == 1
\* MARKS1 = P1_MARK * 500: the model's autoplay queue holds this many of each
\* (a queue of 20 marks).
MaxMarks == 10
\* Play mode selections that take effect (those made while no game is in
\* progress) in one run of the program.
MaxModeChanges == 1
\* Game Status windows that may be open at the same time.
MaxStatus == 2

\* --------------------------------------------------------------- constants
P1_MARK == "X"
P2_MARK == "O"
PLAYER1 == "Player 1"
PLAYER2 == "Player 2"
BLANK == " "

Cells == 0..8

\* WINNING_COMBOS with the second diagonal mistyped.
WINNING_COMBOS_mistyped ==
    << <<0, 1, 2>>, <<3, 4, 5>>, <<6, 7, 8>>,
       <<0, 3, 6>>, <<1, 4, 7>>, <<2, 5, 8>>,
       <<0, 4, 8>>, <<2, 4, 8>> >>

WINNING_COMBOS ==
    << <<0, 1, 2>>, <<3, 4, 5>>, <<6, 7, 8>>,
       <<0, 3, 6>>, <<1, 4, 7>>, <<2, 5, 8>>,
       <<0, 4, 8>>, <<2, 4, 6>> >>

CORNERS == <<0, 2, 6, 8>>
SIDES == <<1, 3, 5, 7>>
PARA_CORNERS == << <<0, 8>>, <<2, 6>> >>

\* Dictionaries as sequences of <<key, value>> in insertion order.
ORTHO_SIDES ==
    << <<0, <<1, 3>> >>, <<2, <<1, 5>> >>, <<6, <<3, 7>> >>, <<8, <<5, 7>> >> >>

META_POSITIONS ==
    << <<0, <<2, 3>> >>, <<2, <<0, 5>> >>, <<6, <<3, 8>> >>, <<8, <<5, 6>> >> >>

PvModes == {"pvp", "pvpc"}
AutoModes == {"Autoplay random", "Autoplay center", "Autoplay strategy"}
PcPrefs == {"PC plays random", "PC plays center", "PC plays strategy"}

\* ------------------------------------------------------------ pure helpers
Range(s) == {s[k] : k \in 1..Len(s)}

EmptyBoard == [i \in Cells |-> BLANK]

Opponent(mark) == IF mark = P1_MARK THEN P2_MARK ELSE P1_MARK

\* turn_number(): the squares whose text holds no space.
turn_number(b) == Cardinality({i \in Cells : b[i] # BLANK})

Place(b, i, mark) == [b EXCEPT ![i] = mark]

\* (mutant) ComboPlay that answers only for a line whose empty square is its
\* last one.
ComboPlay_lastonly(b, combo, who) ==
    LET x == combo[1]
        y == combo[2]
        z == combo[3]
    IN  IF b[x] = who /\ b[y] = who /\ b[z] = BLANK THEN z
        ELSE -1

\* The square one combo tells `mark` to play against the two squares `who`
\* holds in it (the three if-statements of the loops in play_rudiments), or -1.
ComboPlay(b, combo, who) ==
    LET x == combo[1]
        y == combo[2]
        z == combo[3]
    IN  IF b[x] = who /\ b[y] = who /\ b[z] = BLANK THEN z
        ELSE IF b[y] = who /\ b[z] = who /\ b[x] = BLANK THEN x
        ELSE IF b[x] = who /\ b[z] = who /\ b[y] = BLANK THEN y
        ELSE -1

\* One loop of play_rudiments over the shuffled WINNING_COMBOS: the loop plays
\* for the first combo, in shuffled order, that ComboPlay answers for, then
\* breaks.  random.shuffle can put any combo first, so the boards the loop can
\* leave are those with the square of any answering combo played.
RudimentsLoop(b, mark, who) ==
    LET plays == {ComboPlay(b, WINNING_COMBOS[k], who) : k \in 1..Len(WINNING_COMBOS)} \ {-1}
    IN  IF plays = {} THEN {b} ELSE {Place(b, c, mark) : c \in plays}

\* play_rudiments with its two loops in the other order: block, then win.
play_rudiments_blockfirst(b, tn, mark) ==
    UNION { IF tn = turn_number(b1)
            THEN RudimentsLoop(b1, mark, mark)
            ELSE {b1}
          : b1 \in RudimentsLoop(b, mark, Opponent(mark)) }

\* play_rudiments(turn_number, mark): the boards it can leave.
play_rudiments(b, tn, mark) ==
    UNION { IF tn = turn_number(b1)
            THEN RudimentsLoop(b1, mark, Opponent(mark))
            ELSE {b1}
          : b1 \in RudimentsLoop(b, mark, mark) }

\* The list of the opponent's squares, ascending, as play_defense builds it.
RECURSIVE PositionsFrom(_, _, _)
PositionsFrom(b, who, i) ==
    IF i > 8 THEN << >>
    ELSE (IF b[i] = who THEN <<i>> ELSE << >>) \o PositionsFrom(b, who, i + 1)

oppo_positions(b, who) == PositionsFrom(b, who, 0)

\* (mutant) only the first item of the table is looked at.
TablePlay_first(b, mark, table, oppo, k) ==
    IF b[table[1][1]] = BLANK /\ oppo = table[1][2]
    THEN Place(b, table[1][1], mark)
    ELSE b

\* for key, val in table.items(): the first key whose square is empty and
\* whose val equals the opponent's positions is played.
RECURSIVE TablePlay(_, _, _, _, _)
TablePlay(b, mark, table, oppo, k) ==
    IF k > Len(table) THEN b
    ELSE IF b[table[k][1]] = BLANK /\ oppo = table[k][2]
         THEN Place(b, table[k][1], mark)
         ELSE TablePlay(b, mark, table, oppo, k + 1)

\* play_defense with the adjacent sides table tried before the center
\* defense.
play_defense_sidesfirst(b, tn, mark) ==
    LET opponent == Opponent(mark)
        oppo == oppo_positions(b, opponent)
        b1 == IF tn = 1 /\ b[4] = BLANK THEN Place(b, 4, mark) ELSE b
        b2 == IF tn = turn_number(b1)
              THEN TablePlay(b1, mark, ORTHO_SIDES, oppo, 1) ELSE b1
        b3 == IF tn = turn_number(b2)
                 /\ (\E k \in 1..Len(SIDES) : b2[SIDES[k]] = opponent)
                 /\ b2[4] = BLANK
              THEN Place(b2, 4, mark) ELSE b2
        b4 == IF tn = turn_number(b3)
              THEN TablePlay(b3, mark, META_POSITIONS, oppo, 1) ELSE b3
    IN  IF tn = turn_number(b4) /\ (\E k \in 1..Len(PARA_CORNERS) : PARA_CORNERS[k] = oppo)
        THEN {Place(b4, SIDES[k], mark) : k \in 1..Len(SIDES)}
        ELSE {b4}

\* (mutant) play_defense without the answer to the opponent's first turn.
play_defense_no_opening(b, tn, mark) ==
    LET opponent == Opponent(mark)
        oppo == oppo_positions(b, opponent)
        b1 == b
        \* Opponent on a side square: play the open center.
        b2 == IF tn = turn_number(b1)
                 /\ (\E k \in 1..Len(SIDES) : b1[SIDES[k]] = opponent)
                 /\ b1[4] = BLANK
              THEN Place(b1, 4, mark) ELSE b1
        \* Opponent on two adjacent sides: play the shared corner.
        b3 == IF tn = turn_number(b2)
              THEN TablePlay(b2, mark, ORTHO_SIDES, oppo, 1) ELSE b2
        \* Opponent on a corner and a non-adjacent side.
        b4 == IF tn = turn_number(b3)
              THEN TablePlay(b3, mark, META_POSITIONS, oppo, 1) ELSE b3
    IN  \* Opponent on opposite corners: play SIDES[0] of the shuffled SIDES,
        \* whatever that square holds.
        IF tn = turn_number(b4) /\ (\E k \in 1..Len(PARA_CORNERS) : PARA_CORNERS[k] = oppo)
        THEN {Place(b4, SIDES[k], mark) : k \in 1..Len(SIDES)}
        ELSE {b4}

\* (mutant) play_defense without the answer to opposite corners.
play_defense_no_para(b, tn, mark) ==
    LET opponent == Opponent(mark)
        oppo == oppo_positions(b, opponent)
        \* Always defend center in response to opponent's 1st turn.
        b1 == IF tn = 1 /\ b[4] = BLANK THEN Place(b, 4, mark) ELSE b
        \* Opponent on a side square: play the open center.
        b2 == IF tn = turn_number(b1)
                 /\ (\E k \in 1..Len(SIDES) : b1[SIDES[k]] = opponent)
                 /\ b1[4] = BLANK
              THEN Place(b1, 4, mark) ELSE b1
        \* Opponent on two adjacent sides: play the shared corner.
        b3 == IF tn = turn_number(b2)
              THEN TablePlay(b2, mark, ORTHO_SIDES, oppo, 1) ELSE b2
        \* Opponent on a corner and a non-adjacent side.
        b4 == IF tn = turn_number(b3)
              THEN TablePlay(b3, mark, META_POSITIONS, oppo, 1) ELSE b3
    IN  {b4}

\* play_defense(turn_number, mark): the boards it can leave.
play_defense(b, tn, mark) ==
    LET opponent == Opponent(mark)
        oppo == oppo_positions(b, opponent)
        \* Always defend center in response to opponent's 1st turn.
        b1 == IF tn = 1 /\ b[4] = BLANK THEN Place(b, 4, mark) ELSE b
        \* Opponent on a side square: play the open center.
        b2 == IF tn = turn_number(b1)
                 /\ (\E k \in 1..Len(SIDES) : b1[SIDES[k]] = opponent)
                 /\ b1[4] = BLANK
              THEN Place(b1, 4, mark) ELSE b1
        \* Opponent on two adjacent sides: play the shared corner.
        b3 == IF tn = turn_number(b2)
              THEN TablePlay(b2, mark, ORTHO_SIDES, oppo, 1) ELSE b2
        \* Opponent on a corner and a non-adjacent side.
        b4 == IF tn = turn_number(b3)
              THEN TablePlay(b3, mark, META_POSITIONS, oppo, 1) ELSE b3
    IN  \* Opponent on opposite corners: play SIDES[0] of the shuffled SIDES,
        \* whatever that square holds.
        IF tn = turn_number(b4) /\ (\E k \in 1..Len(PARA_CORNERS) : PARA_CORNERS[k] = oppo)
        THEN {Place(b4, SIDES[k], mark) : k \in 1..Len(SIDES)}
        ELSE {b4}

\* (mutant) play_corners that plays nothing.
play_corners_none(b, tn, mark) == {b}

\* play_corners that takes the first corner of the shuffled CORNERS without
\* looking at what it holds.
play_corners_any(b, tn, mark) ==
    IF tn = turn_number(b)
    THEN {Place(b, c, mark) : c \in Range(CORNERS)}
    ELSE {b}

\* play_corners(turn_number, mark): the first empty corner of the shuffled
\* CORNERS, which can be any empty corner.
play_corners(b, tn, mark) ==
    LET open == {c \in Range(CORNERS) : b[c] = BLANK}
    IN  IF tn = turn_number(b) /\ open # {}
        THEN {Place(b, c, mark) : c \in open}
        ELSE {b}

\* play_random that marks the random square without looking at what it
\* holds, until the turn count has changed.
play_random_any(b, tn, mark) ==
    IF tn = turn_number(b)
    THEN {b1 \in {Place(b, c, mark) : c \in Cells} : b1 # b}
    ELSE {b}

\* play_random(turn_number, mark): loops until a random empty square is
\* played.  On a full board the loop never ends; the model leaves the board
\* as it is, so that the turn is recorded as one that played no square on a
\* board of 9 marks.
play_random(b, tn, mark) ==
    IF tn # turn_number(b) \/ tn = 9 THEN {b}
    ELSE {Place(b, i, mark) : i \in {j \in Cells : b[j] = BLANK}}

\* if turn_number == self.turn_number(): the boards of a set on which
\* nothing has been played yet this turn, and the others.
Unplayed(boards, tn) == {b1 \in boards : tn = turn_number(b1)}

HasPlayed(boards, tn) == boards \ Unplayed(boards, tn)


\* ------------------------------------------------------------------- state
VARIABLES
    board_labels,          \* text of the 9 squares: " ", "X", "O" (or "TIE")
    mode_clicked,          \* value of the play mode Radiobuttons
    curr_pmode,            \* "", "pvp" or "pvpc"
    curr_automode,         \* "" or the autoplay mode last used
    pc_pref,               \* value of the choose_pc_pref Combobox
    p1_points,             \* HALF points of Player 1
    p2_points,             \* HALF points of Player 2
    prev_game_num,         \* games played
    ties_num,              \* tie games
    winner_found,          \* game flow flag
    whose_turn,            \* status text
    auto_marks,            \* queue of autoplay marks
    after_id,              \* "None", "live" (a scheduled call) or "dead"
    autoplay_calls,        \* autoplay_* calls scheduled with after(), by due time
    after_calls,           \* flash_show, flash_erase, auto_setup still to run
    early_calls,           \* how many of the first autoplay_calls may come due
                           \*   before the callbacks of after_calls
    flash_combo,           \* combo captured by the pending flash callbacks
    flash_mark,            \* mark captured by the pending flash callbacks
    combos_shuffled,       \* random.shuffle(WINNING_COMBOS) has run
    who_autostarts,        \* text of the who_autostarts Button
    auto_start_stop,       \* text of the auto_start_stop Button
    widget_state,          \* which widgets are enabled (NORMAL / readonly)
    board_bound,           \* <Button-1> of the squares is bound to human_turn
    keys_bound,            \* the play keys are bound to human_turn
    status_windows,        \* Game Status windows open (each has a New Game button)
    log,                   \* history: what the last callback did
    mode_changes,          \* history: play mode selections that took effect
    starters,              \* history: who placed the first mark of the last
                           \*   scored game (prev) and of this game (cur),
                           \*   and whether this game has been scored (over)
    fn_input,              \* history: the board a move selection was applied to
    series                 \* history: autoplay turns applied since auto_start
                           \*   (turns), queue marks removed without a turn
                           \*   in autoplay callbacks (dropped), and whether
                           \*   auto_stop('canceled') has run since (canceled)

vars == << board_labels, mode_clicked, curr_pmode, curr_automode, pc_pref,
           p1_points, p2_points, prev_game_num, ties_num, winner_found,
           whose_turn, auto_marks, after_id, autoplay_calls, after_calls,
           early_calls,
           flash_combo, flash_mark, combos_shuffled, who_autostarts,
           auto_start_stop, widget_state, board_bound, keys_bound,
           status_windows, log, mode_changes, starters, fn_input,
           series >>

\* The object as a record, so that a method is an operator from the object
\* before the call to the objects it can leave.
Self ==
    [ board_labels |-> board_labels, mode_clicked |-> mode_clicked,
      curr_pmode |-> curr_pmode, curr_automode |-> curr_automode,
      pc_pref |-> pc_pref, p1_points |-> p1_points, p2_points |-> p2_points,
      prev_game_num |-> prev_game_num, ties_num |-> ties_num,
      winner_found |-> winner_found, whose_turn |-> whose_turn,
      auto_marks |-> auto_marks, after_id |-> after_id,
      autoplay_calls |-> autoplay_calls, after_calls |-> after_calls,
      early_calls |-> early_calls,
      flash_combo |-> flash_combo, flash_mark |-> flash_mark,
      combos_shuffled |-> combos_shuffled, who_autostarts |-> who_autostarts,
      auto_start_stop |-> auto_start_stop, widget_state |-> widget_state,
      board_bound |-> board_bound, keys_bound |-> keys_bound,
      status_windows |-> status_windows, log |-> log ]

\* A callback has called play_random on a full board: its loop never ends,
\* and the event loop, which runs one callback at a time, runs nothing more.
Hung == \E k \in DOMAIN log.turns : log.turns[k].tn = 9

Becomes(s) ==
    /\ ~Hung
    /\ board_labels' = s.board_labels
    /\ mode_clicked' = s.mode_clicked
    /\ curr_pmode' = s.curr_pmode
    /\ curr_automode' = s.curr_automode
    /\ pc_pref' = s.pc_pref
    /\ p1_points' = s.p1_points
    /\ p2_points' = s.p2_points
    /\ prev_game_num' = s.prev_game_num
    /\ ties_num' = s.ties_num
    /\ winner_found' = s.winner_found
    /\ whose_turn' = s.whose_turn
    /\ auto_marks' = s.auto_marks
    /\ after_id' = s.after_id
    /\ autoplay_calls' = s.autoplay_calls
    /\ after_calls' = s.after_calls
    /\ early_calls' = IF s.after_calls = {} THEN 0 ELSE s.early_calls
    /\ flash_combo' = s.flash_combo
    /\ flash_mark' = s.flash_mark
    /\ combos_shuffled' = s.combos_shuffled
    /\ who_autostarts' = s.who_autostarts
    /\ auto_start_stop' = s.auto_start_stop
    /\ widget_state' = s.widget_state
    /\ board_bound' = s.board_bound
    /\ keys_bound' = s.keys_bound
    /\ status_windows' = s.status_windows
    /\ log' = s.log

\* History of one callback: its name, the turns it played and the marks it
\* ran check_winner for, and the combos check_winner reported as won (handed
\* to highlight_result or auto_flash_game).  A turn is recorded by what it did
\* to the board: n squares changed, legal when each of them was empty before
\* and holds the mover's mark after, tn the turn count before.
NewLog(op) == [op |-> op, turns |-> << >>, checked |-> << >>, combos |-> << >>]

Changed(b0, b1) == {i \in Cells : b0[i] # b1[i]}

TurnEntry(who, mark, b0, b1) ==
    [ who |-> who, mark |-> mark, n |-> Cardinality(Changed(b0, b1)),
      legal |-> \A i \in Changed(b0, b1) : b0[i] = BLANK /\ b1[i] = mark,
      tn |-> turn_number(b0) ]

Logged(s, entry) == [s EXCEPT !.log.turns = Append(@, entry)]

\* ----------------------------------------------------------- status texts
P1Plays == "Player 1 plays X"
P2Plays == "Player 2 plays O"
PcPlays == "PC plays O"
PcPlayed == "PC played O, Your turn Player 1"
GamePending == "Game pending..."
TakenP1 == "That square is taken Player 1, Put X elsewhere."
TakenP2 == "That square is taken Player 2, Put O elsewhere."

\* The test for Player 1 that misses the "That square is taken" texts.
NamesPlayer1_untaken(text) == text \in {P1Plays, PcPlayed}

\* PLAYER1 in self.whose_turn.get()
NamesPlayer1(text) == text \in {P1Plays, PcPlayed, TakenP1}

\* ----------------------------------------------------------------- widgets
Widgets == {"pvp_mode", "pvpc_mode", "auto_modes", "auto_start_stop",
            "who_autostarts", "choose_pc_pref"}

\* disable(*group)
PlayerModes == {"pvp_mode", "pvpc_mode"}
AutoModesGroup == {"auto_modes"}
AutoControls == {"auto_start_stop", "who_autostarts"}

Config(s, names, on) ==
    [s EXCEPT !.widget_state = [w \in Widgets |-> IF w \in names THEN on ELSE @[w]]]

disable(s, names) == Config(s, names, FALSE)

\* setup_game_board(): every square is reset to ' '; the mouse is bound in
\* the two player modes (an existing binding is left alone otherwise).
setup_game_board(s) ==
    [s EXCEPT !.board_labels = EmptyBoard,
              !.board_bound = IF s.mode_clicked \in PvModes THEN TRUE ELSE @]

unbind_game_board(s) == [s EXCEPT !.board_bound = FALSE, !.keys_bound = FALSE]

ready_player_one(s) ==
    [s EXCEPT !.whose_turn =
        IF s.mode_clicked = "pvpc" /\ turn_number(s.board_labels) = 1
        THEN PcPlayed ELSE P1Plays]

\* display_status(status_msg): freeze the game and open a Game Status window.
display_status(s) ==
    LET s1 == disable(unbind_game_board(s), PlayerModes \cup AutoModesGroup \cup AutoControls)
    IN  [s1 EXCEPT !.whose_turn = GamePending, !.status_windows = @ + 1]

\* reset_game_and_score()
reset_game_and_score(s) ==
    LET s1 == setup_game_board(
                [s EXCEPT !.prev_game_num = 0, !.p1_points = 0,
                          !.p2_points = 0, !.ties_num = 0])
    IN  IF s.mode_clicked \in AutoModes
        THEN [unbind_game_board(s1) EXCEPT !.whose_turn = s.curr_automode]
        ELSE s1


\* ------------------------------------------------------------ check_winner
HasLine(b, combo, mark) ==
    b[combo[1]] = mark /\ b[combo[2]] = mark /\ b[combo[3]] = mark

\* Positions in WINNING_COMBOS of the combos `mark` holds.
WonCombos(b, mark) ==
    {k \in 1..Len(WINNING_COMBOS) : HasLine(b, WINNING_COMBOS[k], mark)}

\* The combo the loop of check_winner meets first.  WINNING_COMBOS is in its
\* written order until random.shuffle has run on it; afterwards any order is
\* possible, so any of the held combos can come first.
FirstCombos(s, won) ==
    IF s.combos_shuffled THEN won
    ELSE {k \in won : \A j \in won : k <= j}

\* (mutant) a win awards half a point.
award_points_half(s, winning_mark) ==
    IF winning_mark = P1_MARK
    THEN [s EXCEPT !.p1_points = @ + 1]
    ELSE [s EXCEPT !.p2_points = @ + 1]

award_points(s, winning_mark) ==
    IF winning_mark = P1_MARK
    THEN [s EXCEPT !.p1_points = @ + 2]
    ELSE [s EXCEPT !.p2_points = @ + 2]

\* self.winner_found = True; prev_game_num += 1
GameOver(s) == [s EXCEPT !.winner_found = TRUE, !.prev_game_num = @ + 1]

\* auto_flash_game(combo, mark): after(1, flash_show),
\* after(flash time, flash_erase), after_idle(auto_setup).  An autoplay call
\* that is already scheduled (the call of another series) comes due at some
\* time within the autoplay interval, so possibly before these callbacks.
\* The model keeps one set of these callbacks: a game that ends while the
\* callbacks of another are pending replaces them.
auto_flash_game(s, combo, mark) ==
    [s EXCEPT !.after_calls = @ \cup {"flash_show", "flash_erase", "auto_setup"},
              !.early_calls = IF s.after_calls = {} THEN Len(s.autoplay_calls) ELSE 0,
              !.flash_combo = combo, !.flash_mark = mark]

\* The body of the loop for one held combo in mode pvp, which has no break:
\* it runs once for every combo that `mark` holds.
RECURSIVE PvpWins(_, _, _)
PvpWins(s, mark, n) ==
    IF n = 0 THEN s
    ELSE PvpWins(display_status(award_points(GameOver(s), mark)), mark, n - 1)

\* The combos `mark` holds, in the orders the loop of check_winner can meet
\* them: the written order, or any order once random.shuffle has run.
WonOrders(s, mark) ==
    LET held == SelectSeq(WINNING_COMBOS, LAMBDA c : HasLine(s.board_labels, c, mark))
        n == Len(held)
    IN  IF s.combos_shuffled
        THEN { [k \in 1..n |-> held[q[k]]]
               : q \in {f \in [1..n -> 1..n] : \A i, j \in 1..n : f[i] = f[j] => i = j} }
        ELSE {held}

\* highlight_result('win', combo) / auto_flash_game(combo, mark): the combo
\* the loop was at is the line shown as won.
Reported(s, combo) == [s EXCEPT !.log.combos = Append(@, combo)]

WinLoop(s, mark) ==
    LET won == WonCombos(s.board_labels, mark)
    IN  IF won = {} THEN {s}
        ELSE IF s.mode_clicked \in AutoModes
        THEN { Reported(auto_flash_game(award_points(GameOver(s), mark),
                                        WINNING_COMBOS[k], mark),
                        WINNING_COMBOS[k])
               : k \in FirstCombos(s, won) }
        ELSE IF s.mode_clicked = "pvpc"
        THEN { Reported(display_status(award_points(GameOver(s), mark)),
                        WINNING_COMBOS[k])
               : k \in FirstCombos(s, won) }
        ELSE { [PvpWins(s, mark, Cardinality(won)) EXCEPT !.log.combos = @ \o order]
               : order \in WonOrders(s, mark) }

\* TieCheck that counts the tie but gives Player 2 no half point.
TieCheck_p1only(s) ==
    IF turn_number(s.board_labels) = 9 /\ ~s.winner_found
    THEN LET s1 == [GameOver(s) EXCEPT !.p1_points = @ + 1, !.ties_num = @ + 1]
         IN  IF s.mode_clicked \in AutoModes
             THEN auto_flash_game(s1, <<4, 4, 4>>, "TIE")
             ELSE display_status(s1)
    ELSE s

TieCheck(s) ==
    IF turn_number(s.board_labels) = 9 /\ ~s.winner_found
    THEN LET s1 == [GameOver(s) EXCEPT !.p1_points = @ + 1, !.p2_points = @ + 1,
                                       !.ties_num = @ + 1]
         IN  IF s.mode_clicked \in AutoModes
             THEN auto_flash_game(s1, <<4, 4, 4>>, "TIE")
             ELSE display_status(s1)
    ELSE s

\* check_winner(mark): the objects it can leave.
check_winner(s, mark) ==
    { TieCheck(s1) : s1 \in WinLoop([s EXCEPT !.log.checked = Append(@, mark)], mark) }

\* (mutant) the evaluation starts one turn late.
CheckFromTurn6(s, mark) ==
    IF turn_number(s.board_labels) >= 6 THEN check_winner(s, mark) ELSE {s}

\* if self.turn_number() >= 5: self.check_winner(mark)
CheckFromTurn5(s, mark) ==
    IF turn_number(s.board_labels) >= 5 THEN check_winner(s, mark) ELSE {s}

\* ----------------------------------------------------------------- pc_turn
\* The boards the play section of pc_turn can leave.
pc_plays(b, pref) ==
    LET tn == turn_number(b)
        a1 == IF pref = "PC plays random" THEN play_random(b, tn, P2_MARK)
              ELSE IF pref = "PC plays center" /\ b[4] = BLANK
                   THEN {Place(b, 4, P2_MARK)}
                   ELSE {b}
        a2 == HasPlayed(a1, tn)
                \cup UNION {play_rudiments(x, tn, P2_MARK) : x \in Unplayed(a1, tn)}
        a3 == IF pref = "PC plays strategy"
              THEN HasPlayed(a2, tn)
                     \cup UNION {play_defense(x, tn, P2_MARK) : x \in Unplayed(a2, tn)}
              ELSE a2
        a4 == IF pref = "PC plays strategy"
              THEN HasPlayed(a3, tn)
                     \cup UNION {play_corners(x, tn, P2_MARK) : x \in Unplayed(a3, tn)}
              ELSE a3
    IN  HasPlayed(a4, tn)
           \cup UNION {play_random(x, tn, P2_MARK) : x \in Unplayed(a4, tn)}

pc_turn(s) ==
    LET b == s.board_labels
        s0 == [s EXCEPT !.widget_state["choose_pc_pref"] =
                            IF turn_number(b) > 0 THEN FALSE ELSE @,
                        !.combos_shuffled = TRUE]
    IN  UNION { { IF s2.winner_found THEN s2 ELSE ready_player_one(s2)
                  : s2 \in CheckFromTurn5(
                             Logged([s0 EXCEPT !.board_labels = b1],
                                    TurnEntry("pc", P2_MARK, b, b1)),
                             P2_MARK) }
                : b1 \in pc_plays(b, s.pc_pref) }

\* -------------------------------------------------------------- human_turn
h_plays_p1(s, i) ==
    [s EXCEPT !.board_labels[i] = P1_MARK, !.whose_turn = P2Plays]

h_plays_p2(s, i) ==
    ready_player_one([s EXCEPT !.board_labels[i] = P2_MARK])

h_plays_p1_v_pc(s, i) ==
    [s EXCEPT !.board_labels[i] = P1_MARK, !.whose_turn = PcPlays]

\* (mutant) the PC replies to every move of the human.
PcReplies_always(s) == TRUE

\* (mutant) the PC replies whenever a square is free.
PcReplies_won(s) == turn_number(s.board_labels) < 9

\* if self.turn_number() < 9 and not self.winner_found: self.pc_turn()
PcReplies(s) == turn_number(s.board_labels) < 9 /\ ~s.winner_found

\* The mode that is not in play is disabled once play is underway.
DisableOtherMode(s) ==
    IF s.curr_pmode = "pvp" THEN disable(s, {"pvpc_mode"}) ELSE disable(s, {"pvp_mode"})

human_turn(s, i) ==
    LET b == s.board_labels
        tn == turn_number(b)
        even_game == s.prev_game_num % 2 = 0
        even_turn == tn % 2 = 0
    IN  IF b[i] = BLANK
        THEN LET s0 == disable(s, AutoModesGroup \cup AutoControls)
             IN  IF s.mode_clicked = "pvp"
                 THEN LET s1 == [s0 EXCEPT !.curr_pmode = "pvp"]
                          s2 == IF even_game = even_turn
                                THEN h_plays_p1(s1, i) ELSE h_plays_p2(s1, i)
                          s3 == Logged(s2, TurnEntry("human", s2.board_labels[i],
                                                     b, s2.board_labels))
                      IN  { DisableOtherMode(s4)
                            : s4 \in CheckFromTurn5(s3, s3.board_labels[i]) }
                 ELSE LET s1 == [s0 EXCEPT !.curr_pmode = "pvpc"]
                          s2 == IF (even_turn /\ even_game) \/ (~even_turn /\ ~even_game)
                                THEN h_plays_p1_v_pc(s1, i) ELSE s1
                          s3 == Logged(s2, TurnEntry("human", P1_MARK, b, s2.board_labels))
                      IN  UNION { { DisableOtherMode(s5)
                                    : s5 \in IF PcReplies(s4)
                                             THEN pc_turn(s4) ELSE {s4} }
                                  : s4 \in CheckFromTurn5(s3, P1_MARK) }
        ELSE \* That square has a player's mark as its text.
             { [s EXCEPT !.whose_turn =
                    IF NamesPlayer1(s.whose_turn) THEN TakenP1 ELSE TakenP2] }


\* ---------------------------------------------------------------- new_game
\* new_game(), called from the New Game button of a Game Status window.
\* (mutant) new_game that never lets the PC open a PvPC game.
new_game_p1_always(s) ==
    LET s1 == setup_game_board(
                [Config(s, AutoModesGroup \cup PlayerModes, TRUE)
                   EXCEPT !.winner_found = FALSE])
    IN  IF s.mode_clicked = "pvp"
        THEN { [Config(s1, {"choose_pc_pref"}, FALSE)
                  EXCEPT !.keys_bound = TRUE,
                         !.whose_turn = IF s.prev_game_num % 2 = 0
                                        THEN P1Plays ELSE P2Plays] }
        ELSE IF s.mode_clicked = "pvpc"
        THEN { Config(ready_player_one([s1 EXCEPT !.keys_bound = TRUE]),
                      {"choose_pc_pref"}, TRUE) }
        ELSE \* 'Autoplay' in mode
             { [Config(Config(reset_game_and_score(s1),
                              {"auto_start_stop", "who_autostarts"}, TRUE),
                       {"choose_pc_pref"}, FALSE)
                  EXCEPT !.auto_marks = << >>,
                         !.auto_start_stop = "Start Autoplay"] }

new_game(s) ==
    LET s1 == setup_game_board(
                [Config(s, AutoModesGroup \cup PlayerModes, TRUE)
                   EXCEPT !.winner_found = FALSE])
    IN  IF s.mode_clicked = "pvp"
        THEN { [Config(s1, {"choose_pc_pref"}, FALSE)
                  EXCEPT !.keys_bound = TRUE,
                         !.whose_turn = IF s.prev_game_num % 2 = 0
                                        THEN P1Plays ELSE P2Plays] }
        ELSE IF s.mode_clicked = "pvpc"
        THEN IF s.prev_game_num % 2 # 0
             THEN pc_turn(disable([s1 EXCEPT !.keys_bound = TRUE, !.whose_turn = PcPlays],
                                  AutoModesGroup \cup AutoControls))
             ELSE { Config(ready_player_one([s1 EXCEPT !.keys_bound = TRUE]),
                           {"choose_pc_pref"}, TRUE) }
        ELSE \* 'Autoplay' in mode
             { [Config(Config(reset_game_and_score(s1),
                              {"auto_start_stop", "who_autostarts"}, TRUE),
                       {"choose_pc_pref"}, FALSE)
                  EXCEPT !.auto_marks = << >>,
                         !.auto_start_stop = "Start Autoplay"] }

\* restart_game() of a Game Status window: new_game(), then the window closes.
restart_game(s) ==
    { [s1 EXCEPT !.status_windows = @ - 1] : s1 \in new_game(s) }

\* ------------------------------------------------------------ mode_control
\* mode_control(), the command of the five play mode Radiobuttons; the click
\* has already set mode_clicked.
\* (mutant) mode_control without the test for a game in progress.
mode_control_unguarded(s) ==
    LET s1 == Config(s, {"choose_pc_pref"}, s.mode_clicked = "pvpc")
        s2 == IF s.mode_clicked \in PvModes
              THEN [ready_player_one(disable(s1, AutoControls))
                      EXCEPT !.keys_bound = TRUE]
              ELSE [Config(s1, AutoControls, TRUE)
                      EXCEPT !.whose_turn = s.mode_clicked,
                             !.curr_automode = s.mode_clicked]
    IN  reset_game_and_score(s2)

mode_control(s) ==
    IF turn_number(s.board_labels) > 0 /\ ~s.winner_found
    THEN \* A game is in progress: ignore the selection.
         IF s.mode_clicked \in PvModes
         THEN LET s1 == disable(s, AutoModesGroup \cup AutoControls)
              IN  IF s.curr_pmode = "pvp"
                  THEN [disable(s1, {"pvpc_mode"}) EXCEPT !.mode_clicked = "pvp"]
                  ELSE IF s.curr_pmode = "pvpc"
                  THEN [Config(disable(s1, {"pvp_mode"}), {"choose_pc_pref"},
                               IF s.prev_game_num % 2 = 0
                               THEN TRUE ELSE s.widget_state["choose_pc_pref"])
                          EXCEPT !.mode_clicked = "pvpc"]
                  ELSE s1
         ELSE s
    ELSE \* No game in progress.
         LET s1 == Config(s, {"choose_pc_pref"}, s.mode_clicked = "pvpc")
             s2 == IF s.mode_clicked \in PvModes
                   THEN [ready_player_one(disable(s1, AutoControls))
                           EXCEPT !.keys_bound = TRUE]
                   ELSE [Config(s1, AutoControls, TRUE)
                           EXCEPT !.whose_turn = s.mode_clicked,
                                  !.curr_automode = s.mode_clicked]
         IN  reset_game_and_score(s2)

\* ---------------------------------------------------------------- autoplay
\* (mutant) drops the leading mark whatever it is.
lstrip_head(marks, mark) == IF marks # << >> THEN Tail(marks) ELSE marks

\* str.lstrip(mark): drop every leading `mark`.
RECURSIVE lstrip(_, _)
lstrip(marks, mark) ==
    IF marks # << >> /\ Head(marks) = mark THEN lstrip(Tail(marks), mark) ELSE marks

\* (mutant) a queue of half the length.
FullMarks_half == [k \in 1..MaxMarks |-> IF k % 2 = 1 THEN P1_MARK ELSE P2_MARK]

\* ''.join(map(lambda m1, m2: m1 + m2, MARKS1, MARKS2))
FullMarks == [k \in 1..(2 * MaxMarks) |-> IF k % 2 = 1 THEN P1_MARK ELSE P2_MARK]

auto_setup(s) ==
    LET s1 == IF Len(s.auto_marks) > 0
              THEN [s EXCEPT !.auto_marks =
                      IF s.who_autostarts = "Player 1 starts"
                      THEN lstrip(@, P2_MARK)
                      ELSE IF s.prev_game_num % 2 = 0
                           THEN lstrip(@, P2_MARK)
                           ELSE lstrip(@, P1_MARK)]
              ELSE s
    IN  setup_game_board([s1 EXCEPT !.winner_found = FALSE])

\* (mutant) auto_stop that counts the game on the board as played and leaves
\* the board as it is.
auto_stop_counts(s) ==
    LET s1 == IF s.after_id # "None"
              THEN [s EXCEPT !.autoplay_calls =
                                 IF s.after_id = "live"
                                 THEN SubSeq(@, 1, Len(@) - 1) ELSE @,
                             !.early_calls =
                                 IF s.after_id = "live" /\ @ = Len(s.autoplay_calls)
                                 THEN @ - 1 ELSE @,
                             !.after_id = "None"]
              ELSE s
    IN  display_status([s1 EXCEPT !.prev_game_num =
                           IF turn_number(s.board_labels) > 0 THEN @ + 1 ELSE @])

\* auto_stop(stop_msg): after_cancel revokes the call after_id refers to, when
\* that call is still scheduled.
auto_stop(s) ==
    LET s1 == IF s.after_id # "None"
              THEN [s EXCEPT !.autoplay_calls =
                                 IF s.after_id = "live"
                                 THEN SubSeq(@, 1, Len(@) - 1) ELSE @,
                             !.early_calls =
                                 IF s.after_id = "live" /\ @ = Len(s.autoplay_calls)
                                 THEN @ - 1 ELSE @,
                             !.after_id = "None"]
              ELSE s
    IN  display_status(setup_game_board(s1))

\* (mutant) the mark played stays at the head of the queue.
auto_repeat_keep(s, mark, auto_method) ==
    { [s1 EXCEPT !.autoplay_calls = Append(@, auto_method),
                 !.after_id = "live"]
      : s1 \in CheckFromTurn5(s, mark) }

\* auto_repeat(mark, auto_method)
auto_repeat(s, mark, auto_method) ==
    { [s1 EXCEPT !.auto_marks = lstrip(@, mark),
                 !.autoplay_calls = Append(@, auto_method),
                 !.after_id = "live"]
      : s1 \in CheckFromTurn5(s, mark) }

\* (mutant) the center player looks for a win or a block before the center.
auto_plays_rudiments_first(b, mark, method) ==
    LET tn == turn_number(b)
        a1 == play_rudiments(b, tn, mark)
        a2 == HasPlayed(a1, tn)
                \cup {IF x[4] = BLANK THEN Place(x, 4, mark) ELSE x : x \in Unplayed(a1, tn)}
    IN  HasPlayed(a2, tn)
           \cup UNION {play_random(x, tn, mark) : x \in Unplayed(a2, tn)}

\* The boards the play section of an autoplay_* method can leave.
auto_plays(b, mark, method) ==
    LET tn == turn_number(b)
    IN  IF method = "Autoplay random" THEN play_random(b, tn, mark)
        ELSE IF method = "Autoplay center"
        THEN LET a1 == IF b[4] = BLANK THEN {Place(b, 4, mark)} ELSE {b}
                 a2 == HasPlayed(a1, tn)
                         \cup UNION {play_rudiments(x, tn, mark) : x \in Unplayed(a1, tn)}
             IN  HasPlayed(a2, tn)
                    \cup UNION {play_random(x, tn, mark) : x \in Unplayed(a2, tn)}
        ELSE LET a1 == IF tn = 0 THEN play_random(b, tn, mark) ELSE {b}
                 a2 == HasPlayed(a1, tn)
                         \cup UNION {play_rudiments(x, tn, mark) : x \in Unplayed(a1, tn)}
                 a3 == HasPlayed(a2, tn)
                         \cup UNION {play_defense(x, tn, mark) : x \in Unplayed(a2, tn)}
                 a4 == HasPlayed(a3, tn)
                         \cup UNION {play_corners(x, tn, mark) : x \in Unplayed(a3, tn)}
             IN  HasPlayed(a4, tn)
                    \cup UNION {play_random(x, tn, mark) : x \in Unplayed(a4, tn)}

\* play_rudiments, which shuffles WINNING_COMBOS, is reached by the method.
ReachesRudiments(b, method) ==
    IF method = "Autoplay random" THEN FALSE
    ELSE IF method = "Autoplay center" THEN b[4] # BLANK
    ELSE turn_number(b) # 0

\* autoplay_random(), autoplay_center(), autoplay_strategy()
autoplay(s, method) ==
    LET s0 == [s EXCEPT !.curr_automode = method]
        b == s.board_labels
    IN  IF Len(s.auto_marks) > 0
        THEN LET mark == Head(s.auto_marks)
                 s1 == [s0 EXCEPT !.combos_shuffled = @ \/ ReachesRudiments(b, method)]
             IN  UNION { auto_repeat(Logged([s1 EXCEPT !.board_labels = b1],
                                            TurnEntry("auto", mark, b, b1)),
                                     mark, method)
                         : b1 \in auto_plays(b, mark, method) }
        ELSE { auto_stop(s0) }

\* (mutant) auto_start that goes on with the queue the earlier series left.
auto_start_no_refill(s) ==
    LET s1 == reset_game_and_score(auto_setup(s))
        s2 == [Config(Config(s1, {"auto_start_stop"}, TRUE), {"who_autostarts"}, FALSE)
                 EXCEPT !.whose_turn = s1.curr_automode]
    IN  { disable(s3, PlayerModes \cup AutoModesGroup)
          : s3 \in IF s.mode_clicked \in AutoModes
                   THEN autoplay(s2, s.mode_clicked) ELSE {s2} }

\* auto_start()
auto_start(s) ==
    LET s1 == reset_game_and_score(auto_setup(s))
        s2 == [Config(Config(s1, {"auto_start_stop"}, TRUE), {"who_autostarts"}, FALSE)
                 EXCEPT !.whose_turn = s1.curr_automode,
                        !.auto_marks = FullMarks]
    IN  { disable(s3, PlayerModes \cup AutoModesGroup)
          : s3 \in IF s.mode_clicked \in AutoModes
                   THEN autoplay(s2, s.mode_clicked) ELSE {s2} }

\* auto_command(), the command of the auto_start_stop Button.
auto_command(s) ==
    IF s.auto_start_stop = "Start Autoplay"
    THEN IF s.mode_clicked \in AutoModes
         THEN auto_start([s EXCEPT !.auto_start_stop = "Stop Autoplay"])
         ELSE {s}
    ELSE { auto_stop([s EXCEPT !.auto_start_stop = "Start Autoplay"]) }

\* autostart_who(), the command of the who_autostarts Button.
autostart_who(s) ==
    [s EXCEPT !.who_autostarts =
        IF @ = "Player 1 starts" THEN "Players alternate" ELSE "Player 1 starts"]

\* flash_show() of auto_flash_game: its update_idletasks() runs auto_setup
\* when that idle callback is still waiting.
flash_show(s) ==
    LET s1 == [s EXCEPT !.board_labels =
                  [i \in Cells |-> IF i \in Range(s.flash_combo)
                                   THEN s.flash_mark ELSE @[i]],
                        !.after_calls = @ \ {"flash_show"}]
    IN  IF "auto_setup" \in s1.after_calls
        THEN [auto_setup(s1) EXCEPT !.after_calls = @ \ {"auto_setup"}]
        ELSE s1

\* flash_erase() of auto_flash_game
flash_erase(s) ==
    [s EXCEPT !.board_labels =
        [i \in Cells |-> IF i \in Range(s.flash_combo) THEN BLANK ELSE @[i]],
              !.after_calls = @ \ {"flash_erase"},
              !.flash_combo = << >>, !.flash_mark = ""]


\* ------------------------------------------------------------------ actions
\* The object after __init__ and configure_widgets, the board apart.
Constructed ==
    /\ mode_clicked = "pvp"
    /\ curr_pmode = ""
    /\ curr_automode = ""
    /\ pc_pref = "PC plays random"
    /\ p1_points = 0
    /\ p2_points = 0
    /\ prev_game_num = 0
    /\ ties_num = 0
    /\ winner_found = FALSE
    /\ whose_turn = P1Plays
    /\ auto_marks = << >>
    /\ after_id = "None"
    /\ autoplay_calls = << >>
    /\ after_calls = {}
    /\ early_calls = 0
    /\ flash_combo = << >>
    /\ flash_mark = ""
    /\ combos_shuffled = FALSE
    /\ who_autostarts = "Player 1 starts"
    /\ auto_start_stop = "Start Autoplay"
    /\ widget_state = [w \in Widgets |-> w \in {"pvp_mode", "pvpc_mode", "auto_modes"}]
    /\ board_bound = TRUE
    /\ keys_bound = TRUE
    /\ status_windows = 0
    /\ log = NewLog("init")
    /\ mode_changes = 0
    /\ starters = [prev |-> "", cur |-> "", over |-> FALSE]
    /\ fn_input = << >>
    /\ series = [turns |-> 0, dropped |-> 0, canceled |-> FALSE]

Init ==
    /\ board_labels = EmptyBoard
    /\ Constructed

\* The object at the start of callback `op`.
Called(op) == [Self EXCEPT !.log = NewLog(op)]

\* Timing of the callbacks of auto_flash_game.  flash_show is due 1 ms after
\* the game-ending turn and auto_setup as soon as Tk is idle: both run before
\* the user can act and before any longer timer.  flash_erase is due after
\* 0.9 of the autoplay interval (autospeed_control), so after flash_show and
\* before any autoplay call scheduled at or after the game-ending turn.  An
\* autoplay call of another series that was scheduled before the game-ending
\* turn (early_calls) can come due at any point among them.  The interval
\* itself (autospeed_selection) is taken as fixed.
Urgent == after_calls \cap {"flash_show", "auto_setup"} # {}

\* The callback now ending cleared the score board (reset_game_and_score).
ScoreReset ==
    \/ log'.op = "pc_pref"
    \/ log'.op = "mode_control" /\ ~(turn_number(board_labels) > 0 /\ ~winner_found)
    \/ log'.op = "auto_command" /\ auto_start_stop = "Start Autoplay"
    \/ log'.op = "new_game" /\ mode_clicked \in AutoModes

\* Marks of the turns the callback played on an empty board, in order.
FirstMarks(turns) == SelectSeq(turns, LAMBDA e : e.tn = 0 /\ e.n = 1)

\* The callback now ending cleared the board for the next game.
NewBoard ==
    \/ log'.op = "new_game"
    \/ log'.op \in {"auto_setup", "flash_show"} /\ "auto_setup" \in after_calls

\* History of an autoplay series: auto_start begins the count; every autoplay
\* callback adds the turns it applied and the marks it took from the queue
\* without applying a turn; the Stop branch of auto_command cancels it.
\* History of who starts: a turn on an empty board starts the current game;
\* a game that was scored (over) becomes the previous game when the board is
\* cleared for the next one; clearing the score board starts a new session.
Observe ==
    /\ UNCHANGED fn_input
    /\ series' =
         LET played == Len(SelectSeq(log'.turns, LAMBDA e : e.who = "auto" /\ e.n > 0))
         IN  IF log'.op = "auto_command"
             THEN IF auto_start_stop = "Start Autoplay" /\ mode_clicked \in AutoModes
                  THEN [turns |-> played, dropped |-> 0, canceled |-> FALSE]
                  ELSE IF auto_start_stop = "Start Autoplay" THEN series
                  ELSE [series EXCEPT !.canceled = TRUE]
             ELSE IF log'.op \in {"autoplay", "auto_setup", "flash_show"}
             THEN [series EXCEPT
                     !.turns = @ + played,
                     !.dropped = @ + (Len(auto_marks) - Len(auto_marks')) - played]
             ELSE series
    /\ starters' =
         LET firsts == FirstMarks(log'.turns)
             base == IF ScoreReset THEN [prev |-> "", cur |-> "", over |-> FALSE]
                     ELSE IF prev_game_num' > prev_game_num
                     THEN [starters EXCEPT !.over = TRUE]
                     ELSE IF NewBoard
                     THEN IF starters.over
                          THEN [prev |-> starters.cur, cur |-> "", over |-> FALSE]
                          ELSE [starters EXCEPT !.cur = ""]
                     ELSE starters
         IN  IF firsts = << >> THEN base
             ELSE [base EXCEPT !.cur = firsts[Len(firsts)].mark]

\* The bound on play after the first game.
MayPlay == prev_game_num = 0 \/ turn_number(board_labels) < LaterTurns

\* A click on square i, or its key.
HumanTurn(i) ==
    /\ ~Urgent
    /\ board_bound \/ keys_bound
    /\ board_labels[i] = BLANK => MayPlay
    /\ \E s \in human_turn(Called("human_turn"), i) :
          /\ s.status_windows <= MaxStatus
          /\ Becomes(s)
    /\ UNCHANGED mode_changes
    /\ Observe

RadioOf(v) ==
    IF v = "pvp" THEN "pvp_mode" ELSE IF v = "pvpc" THEN "pvpc_mode" ELSE "auto_modes"

\* A click on the play mode Radiobutton of value v.
ModeClick(v) ==
    /\ ~Urgent
    /\ widget_state[RadioOf(v)]
    /\ Becomes(mode_control([Called("mode_control") EXCEPT !.mode_clicked = v]))
    /\ IF turn_number(board_labels) > 0 /\ ~winner_found
       THEN UNCHANGED mode_changes
       ELSE mode_changes < MaxModeChanges /\ mode_changes' = mode_changes + 1
    /\ Observe

\* <<ComboboxSelected>> of choose_pc_pref.
PcPrefSelected(pref) ==
    /\ ~Urgent
    /\ widget_state["choose_pc_pref"]
    /\ Becomes(reset_game_and_score([Called("pc_pref") EXCEPT !.pc_pref = pref]))
    /\ UNCHANGED mode_changes
    /\ Observe

\* The New Game button (or Return) of a Game Status window.
NewGameClick ==
    /\ ~Urgent
    /\ status_windows > 0
    /\ \E s \in restart_game(Called("new_game")) : Becomes(s)
    /\ UNCHANGED mode_changes
    /\ Observe

\* The Start/Stop Autoplay button.
AutoCommandClick ==
    /\ ~Urgent
    /\ widget_state["auto_start_stop"]
    /\ auto_start_stop = "Start Autoplay" => Len(autoplay_calls) < 2
    /\ \E s \in auto_command(Called("auto_command")) : Becomes(s)
    /\ UNCHANGED mode_changes
    /\ Observe

\* The who_autostarts button.
AutostartWhoClick ==
    /\ ~Urgent
    /\ widget_state["who_autostarts"]
    /\ Becomes(autostart_who(Called("autostart_who")))
    /\ UNCHANGED mode_changes
    /\ Observe

\* The autoplay_* call scheduled by auto_repeat comes due.
AutoplayIsDue ==
    /\ autoplay_calls # << >>
    /\ after_calls = {} \/ early_calls > 0

\* The objects the call that is due can leave.
AutoplayResults ==
    autoplay([Called("autoplay")
                EXCEPT !.autoplay_calls = Tail(@),
                       !.early_calls = IF @ > 0 THEN @ - 1 ELSE 0,
                       !.after_id = IF Len(autoplay_calls) = 1 /\ @ = "live"
                                    THEN "dead" ELSE @],
             Head(autoplay_calls))

AutoplayDue ==
    /\ AutoplayIsDue
    /\ \E s \in AutoplayResults : Becomes(s)
    /\ UNCHANGED mode_changes
    /\ Observe

\* The same, within the bound on play after the first game.
AutoplayCall ==
    /\ auto_marks # << >> => MayPlay \/ early_calls > 0
    /\ AutoplayDue

FlashShow ==
    /\ "flash_show" \in after_calls
    /\ Becomes(flash_show(Called("flash_show")))
    /\ UNCHANGED mode_changes
    /\ Observe

AutoSetupIdle ==
    /\ "auto_setup" \in after_calls
    /\ Becomes([auto_setup(Called("auto_setup")) EXCEPT !.after_calls = @ \ {"auto_setup"}])
    /\ UNCHANGED mode_changes
    /\ Observe

FlashErase ==
    /\ ~Urgent
    /\ "flash_erase" \in after_calls
    /\ Becomes(flash_erase(Called("flash_erase")))
    /\ UNCHANGED mode_changes
    /\ Observe

Next ==
    \/ \E i \in Cells : HumanTurn(i)
    \/ \E v \in PvModes \cup AutoModes : ModeClick(v)
    \/ \E pref \in PcPrefs : PcPrefSelected(pref)
    \/ NewGameClick
    \/ AutoCommandClick
    \/ AutostartWhoClick
    \/ AutoplayCall
    \/ FlashShow
    \/ AutoSetupIdle
    \/ FlashErase

Spec == Init /\ [][Next]_vars

\* ------------------------------------------------ an undisturbed series
\* One autoplay series that the user starts and then leaves alone: an Autoplay
\* mode is selected, the starter policy is chosen, Start Autoplay is clicked
\* once, and from then on only the scheduled callbacks run, every game played
\* in full.
StartAutoplay ==
    /\ auto_start_stop = "Start Autoplay"
    /\ AutoCommandClick

NextAuto ==
    \/ \E v \in AutoModes : ModeClick(v)
    \/ AutostartWhoClick
    \/ StartAutoplay
    \/ AutoplayDue
    \/ FlashShow
    \/ AutoSetupIdle
    \/ FlashErase

\* The Tk event loop runs a callback that is due sooner or later: weak fairness
\* of "a scheduled callback runs".  The action is written by what every such
\* step leaves in the log, its enabling condition is that a callback is
\* scheduled: after() and after_idle() callbacks never wait for anything else.
CallbackOps == {"autoplay", "flash_show", "auto_setup", "flash_erase"}

CallbackLogs ==
    [ op : CallbackOps,
      turns : {<< >>} \cup
              { <<e>> : e \in [who : {"auto"}, mark : {P1_MARK, P2_MARK},
                               n : 0..1, legal : BOOLEAN, tn : 0..9] },
      checked : {<< >>, <<P1_MARK>>, <<P2_MARK>>},
      combos : {<< >>} \cup {<<WINNING_COMBOS[k]>> : k \in 1..Len(WINNING_COMBOS)} ]

CallbackRuns ==
    /\ after_calls # {} \/ autoplay_calls # << >>
    /\ log' \in CallbackLogs

SpecAuto ==
    /\ Init
    /\ [][NextAuto]_vars
    /\ WF_log(CallbackRuns)

\* ----------------------------------------- the move selection as functions
\* The move selection methods applied to every board a game can hand them:
\* the marks are placed in turn, nobody holds a line, a square is free, and
\* the mover is a side that does not lead in marks.
Marks(b, who) == Cardinality({i \in Cells : b[i] = who})

Playable(b, mark) ==
    /\ turn_number(b) < 9
    /\ Marks(b, mark) <= Marks(b, Opponent(mark))
    /\ Marks(b, Opponent(mark)) <= Marks(b, mark) + 1
    /\ WonCombos(b, P1_MARK) = {}
    /\ WonCombos(b, P2_MARK) = {}

InitFn ==
    /\ board_labels \in {b \in [Cells -> {BLANK, P1_MARK, P2_MARK}] :
                            Playable(b, P1_MARK) \/ Playable(b, P2_MARK)}
    /\ Constructed

\* `boards` are the boards the method named op can leave for the mover.
Applied(op, mark, boards) ==
    /\ Playable(board_labels, mark)
    /\ board_labels' \in boards
    /\ log' = [NewLog(op) EXCEPT
                 !.turns = <<TurnEntry("fn", mark, board_labels, board_labels')>>]
    /\ fn_input' = board_labels
    /\ UNCHANGED << mode_clicked, curr_pmode, curr_automode, pc_pref, p1_points,
                    p2_points, prev_game_num, ties_num, winner_found, whose_turn,
                    auto_marks, after_id, autoplay_calls, after_calls, early_calls,
                    flash_combo, flash_mark, combos_shuffled, who_autostarts,
                    auto_start_stop, widget_state, board_bound, keys_bound,
                    status_windows, mode_changes, starters, series >>

ApplyRudiments(mark) ==
    Applied("play_rudiments", mark,
            play_rudiments(board_labels, turn_number(board_labels), mark))

ApplyAutoplay(mark, method) ==
    Applied(method, mark, auto_plays(board_labels, mark, method))

ApplyPcTurn(pref) ==
    Applied(pref, P2_MARK, pc_plays(board_labels, pref))

NextFn ==
    \/ \E mark \in {P1_MARK, P2_MARK} : ApplyRudiments(mark)
    \/ \E mark \in {P1_MARK, P2_MARK}, method \in AutoModes : ApplyAutoplay(mark, method)
    \/ \E pref \in PcPrefs : ApplyPcTurn(pref)

SpecFn == InitFn /\ [][NextFn]_vars

\* ------------------------------------------------- whole games, move by move
\* The move selection inside games: the boards that play produces.  A mode is
\* selected on the empty board (PvPC with one of the PC's preferences, or an
\* Autoplay mode), then the sides move in turn until a side holds a line or
\* the board is full: in PvPC the human puts X on any empty square and the PC
\* moves by pc_turn's play section, in Autoplay both sides move by the play
\* section of the autoplay_* method.  Either side may put the first mark on
\* an empty board: the PC starts the PvPC games after an odd number of games
\* (new_game), Player 2 the autoplay games that 'Players alternate' gives it
\* (auto_setup).
NextMover(mark) ==
    \/ turn_number(board_labels) = 0
    \/ log.turns # << >> /\ log.turns[1].mark = Opponent(mark)

GameHumanTurn(i) ==
    /\ mode_clicked = "pvpc"
    /\ NextMover(P1_MARK)
    /\ board_labels[i] = BLANK
    /\ Applied("human_turn", P1_MARK, {Place(board_labels, i, P1_MARK)})

GamePcTurn ==
    /\ mode_clicked = "pvpc"
    /\ NextMover(P2_MARK)
    /\ Applied(pc_pref, P2_MARK, pc_plays(board_labels, pc_pref))

GameAutoplay(mark) ==
    /\ mode_clicked \in AutoModes
    /\ NextMover(mark)
    /\ Applied(mode_clicked, mark, auto_plays(board_labels, mark, mode_clicked))

\* The game is over (a line is held or the board is full) and the board is
\* cleared for the next one.
GameNewBoard ==
    /\ ~Playable(board_labels, P1_MARK) /\ ~Playable(board_labels, P2_MARK)
    /\ board_labels' = EmptyBoard
    /\ log' = NewLog("new_game")
    /\ fn_input' = << >>
    /\ UNCHANGED << mode_clicked, curr_pmode, curr_automode, pc_pref, p1_points,
                    p2_points, prev_game_num, ties_num, winner_found, whose_turn,
                    auto_marks, after_id, autoplay_calls, after_calls, early_calls,
                    flash_combo, flash_mark, combos_shuffled, who_autostarts,
                    auto_start_stop, widget_state, board_bound, keys_bound,
                    status_windows, mode_changes, starters, series >>

NextGame ==
    \/ \E v \in {"pvpc"} \cup AutoModes : turn_number(board_labels) = 0 /\ ModeClick(v)
    \/ \E pref \in PcPrefs : turn_number(board_labels) = 0 /\ PcPrefSelected(pref)
    \/ \E i \in Cells : GameHumanTurn(i)
    \/ GamePcTurn
    \/ \E mark \in {P1_MARK, P2_MARK} : GameAutoplay(mark)
    \/ GameNewBoard

SpecGame == Init /\ [][NextGame]_vars

\* -------------------------------------------------------------- properties
\* The 8 lines of the board: 3 rows, 3 columns, 2 diagonals.
Lines ==
    {{3 * r, 3 * r + 1, 3 * r + 2} : r \in 0..2}
        \cup {{c, c + 3, c + 6} : c \in 0..2}
        \cup {{0, 4, 8}, {2, 4, 6}}

HoldsALine(b, mark) == \E line \in Lines : \A i \in line : b[i] = mark

\* The callback now ending ran check_winner for `mark`; ran it last.
Checked(mark) == \E k \in DOMAIN log'.checked : log'.checked[k] = mark

CheckedLast(mark) ==
    log'.checked # << >> /\ log'.checked[Len(log'.checked)] = mark

\* C1 (series scoring): every game that ends is scored exactly one of: a win
\* for Player 1 (p1_points + 1), a win for Player 2 (p2_points + 1), a tie
\* (both + 0.5 and ties_num + 1), and it raises prev_game_num by exactly 1.
\* Points are in half points.
C1_OneResultPerGame ==
    [][(~winner_found /\ winner_found') =>
          /\ prev_game_num' = prev_game_num + 1
          /\ \/ p1_points' = p1_points + 2 /\ UNCHANGED <<p2_points, ties_num>>
             \/ p2_points' = p2_points + 2 /\ UNCHANGED <<p1_points, ties_num>>
             \/ /\ p1_points' = p1_points + 1
                /\ p2_points' = p2_points + 1
                /\ ties_num' = ties_num + 1]_vars

\* C2 (win detection): when check_winner(mark) runs on a board on which mark
\* holds one of the 8 lines, the game is declared won by mark: winner_found
\* is true, mark's side gains and the other side and the ties do not.  When
\* the last check_winner of a callback finds no line of its mark and the
\* board not full, nothing is declared: score and winner_found stay.
C2_WinDetection ==
    [][\A mark \in {P1_MARK, P2_MARK} :
          /\ (Checked(mark) /\ HoldsALine(board_labels', mark)) =>
                /\ winner_found'
                /\ ties_num' = ties_num
                /\ IF mark = P1_MARK
                   THEN p1_points' >= p1_points + 2 /\ p2_points' = p2_points
                   ELSE p2_points' >= p2_points + 2 /\ p1_points' = p1_points
          /\ (CheckedLast(mark) /\ ~HoldsALine(board_labels', mark)
                /\ turn_number(board_labels') < 9) =>
                UNCHANGED <<p1_points, p2_points, ties_num, prev_game_num,
                            winner_found>>]_vars

\* C2 witness: Player 2 was checked on the diagonal 2-4-6 and has the win.
C2_Witness ==
    /\ P2_MARK \in Range(log.checked)
    /\ \A i \in {2, 4, 6} : board_labels[i] = P2_MARK
    /\ winner_found
    /\ p2_points = 2

\* C3 (tie detection): when check_winner(mark) runs on a full board on which
\* mark holds no line, a tie is declared: both sides gain half a point,
\* ties_num rises by 1 and the games played rise by 1.
C3_TieDetection ==
    [][\A mark \in {P1_MARK, P2_MARK} :
          (CheckedLast(mark) /\ ~HoldsALine(board_labels', mark)
             /\ turn_number(board_labels') = 9) =>
                /\ winner_found'
                /\ p1_points' = p1_points + 1
                /\ p2_points' = p2_points + 1
                /\ ties_num' = ties_num + 1
                /\ prev_game_num' = prev_game_num + 1]_vars

\* C3 witness: a full board without a line, just scored as the first tie.
C3_Witness ==
    /\ turn_number(board_labels) = 9
    /\ ~HoldsALine(board_labels, P1_MARK)
    /\ ~HoldsALine(board_labels, P2_MARK)
    /\ log.checked # << >>
    /\ winner_found
    /\ ties_num = 1 /\ p1_points = 1 /\ p2_points = 1

\* C4 (no overwrite): no operation that places a mark changes a square that
\* already holds a mark: every turn a callback plays changes at most one
\* square, an empty one, and a click or an autoplay call that plays a turn
\* leaves every marked square as it was.
C4_NoOverwrite ==
    [][/\ \A k \in DOMAIN log'.turns : log'.turns[k].legal /\ log'.turns[k].n <= 1
       /\ (log'.op \in {"human_turn", "autoplay"} /\ log'.turns # << >>) =>
             \A i \in Cells :
                board_labels[i] # BLANK => board_labels'[i] = board_labels[i]]_vars

\* C4 witness: the strategy PC has answered on a board with 4 marks, all of
\* which are still there.
C4_Witness ==
    /\ log.op = "human_turn"
    /\ pc_pref = "PC plays strategy"
    /\ Len(log.turns) = 2
    /\ log.turns[2].who = "pc" /\ log.turns[2].n = 1 /\ log.turns[2].tn = 5
    /\ turn_number(board_labels) = 6

\* A click (or key) on square i while the square holds a mark.
Rejected(i) == board_labels[i] # BLANK /\ HumanTurn(i)

\* C5 (rejected move): a human move on an occupied square leaves the board,
\* the score and the game counters as they were, runs no check_winner and
\* no PC turn; only the status text changes, to a "square is taken" text,
\* and the same move repeated leaves everything as the first left it.
C5_RejectedMove ==
    [][\A i \in Cells : Rejected(i) =>
          /\ UNCHANGED << board_labels, mode_clicked, curr_pmode, curr_automode,
                          pc_pref, p1_points, p2_points, prev_game_num, ties_num,
                          winner_found, auto_marks, after_id, autoplay_calls,
                          after_calls, flash_combo, flash_mark, combos_shuffled,
                          who_autostarts, auto_start_stop, widget_state,
                          board_bound, keys_bound, status_windows >>
          /\ log'.turns = << >> /\ log'.checked = << >>
          /\ whose_turn' \in {TakenP1, TakenP2}
          /\ whose_turn \in {TakenP1, TakenP2} => whose_turn' = whose_turn]_vars

\* C5 witness: Player 2 has been told that the square is taken, in a game.
C5_Witness ==
    /\ whose_turn = TakenP2
    /\ log.op = "human_turn" /\ log.turns = << >>
    /\ turn_number(board_labels) = 3

\* The mark at the head of the autoplay queue when the callback began
\* (auto_start fills the queue before it plays).
QueuedMark == IF log'.op = "auto_command" THEN Head(FullMarks) ELSE Head(auto_marks)

\* C6 (computer turn): every turn the PC or an autoplay player takes on a
\* board that is not full places exactly one mark, the mover's, on a square
\* that was empty: the turn count rises by exactly 1.
C6_ComputerTurn ==
    [][\A k \in DOMAIN log'.turns :
          LET e == log'.turns[k]
          IN  (e.who \in {"pc", "auto"} /\ e.tn < 9) =>
                /\ e.n = 1
                /\ e.legal
                /\ e.mark = IF e.who = "pc" THEN P2_MARK ELSE QueuedMark]_vars

\* C6 witness: the strategy autoplay has placed the sixth mark of a game.
C6_Witness ==
    /\ log.op = "autoplay"
    /\ mode_clicked = "Autoplay strategy"
    /\ Len(log.turns) = 1
    /\ log.turns[1].who = "auto" /\ log.turns[1].n = 1 /\ log.turns[1].tn = 5
    /\ turn_number(board_labels) = 6

\* `who` holds two squares of a line whose third square is empty.
Threat(b, who) ==
    \E line \in Lines :
       /\ Cardinality({i \in line : b[i] = who}) = 2
       /\ \E i \in line : b[i] = BLANK

\* The mover of the last method application, and the squares it changed.
Mover == log.turns[1].mark

Played == Changed(fn_input, board_labels)

\* The last method application ran play_rudiments before any other play.
RanRudiments ==
    \/ log.op \in {"play_rudiments", "Autoplay strategy", "PC plays strategy"}
    \/ log.op \in {"Autoplay center", "PC plays center"} /\ fn_input[4] # BLANK

\* C7 (win before block): whenever play_rudiments runs on a board where the
\* mover can complete a line of its own and can also block a line of the
\* opponent, it takes the win: one square is played and the mover holds a
\* line.  (Every order of the shuffled WINNING_COMBOS is covered.)
C7_WinBeforeBlock ==
    (RanRudiments /\ Threat(fn_input, Mover) /\ Threat(fn_input, Opponent(Mover))) =>
        /\ Cardinality(Played) = 1
        /\ HoldsALine(board_labels, Mover)

\* C7 witness: play_rudiments itself has completed the mover's line on a
\* board where the opponent had a line to block.
C7_Witness ==
    /\ log.op = "play_rudiments"
    /\ Threat(fn_input, Mover) /\ Threat(fn_input, Opponent(Mover))
    /\ HoldsALine(board_labels, Mover)

\* The tactics player (strategy autoplay, strategy PC) has moved.
TacticsMoved == log.op \in {"Autoplay strategy", "PC plays strategy"}

NoWinNoBlock(b, mark) == ~Threat(b, mark) /\ ~Threat(b, Opponent(mark))

\* The opponent of the mover holds the sides 1 and 3.
OppoOnSides13(b, mark) == b[1] = Opponent(mark) /\ b[3] = Opponent(mark)

ExpectedMover(tn) ==
    LET games == IF log'.op = "auto_command" THEN 0 ELSE prev_game_num
        p1_starts == \/ mode_clicked \in AutoModes /\ who_autostarts = "Player 1 starts"
                     \/ games % 2 = 0
    IN  IF p1_starts = (tn % 2 = 0) THEN P1_MARK ELSE P2_MARK

\* No winner's line or tie is being shown by auto_flash_game.
NoFlash == flash_combo = << >>

\* C9 (strict alternation within a game): while a game is on the board, the
\* numbers of marks of the two sides differ by at most 1, and every turn is
\* taken by the side that turn-count parity and the starter of the game
\* give it to.
C9_StrictAlternation ==
    [][/\ NoFlash' =>
            /\ Marks(board_labels', P1_MARK) <= Marks(board_labels', P2_MARK) + 1
            /\ Marks(board_labels', P2_MARK) <= Marks(board_labels', P1_MARK) + 1
       /\ \A k \in DOMAIN log'.turns :
             log'.turns[k].n = 1 =>
                log'.turns[k].mark = ExpectedMover(log'.turns[k].tn)]_vars

\* C10 (starter alternation in human play): within one PvP or PvPC session,
\* the first game is started by Player 1 and every later game by the side
\* that did not start the game scored before it.
C10_StarterAlternates ==
    (mode_clicked \in PvModes /\ starters.cur # "") =>
        IF starters.prev = "" THEN starters.cur = P1_MARK
        ELSE starters.cur # starters.prev

\* The autoplay turns of the callback now ending that put the first mark on
\* an empty board.
AutoFirstTurns ==
    { k \in DOMAIN log'.turns :
        log'.turns[k].who = "auto" /\ log'.turns[k].tn = 0 /\ log'.turns[k].n = 1 }

\* The mark auto_setup's starter policy gives to game k = prev_game_num + 1.
PolicyStarter(policy, games) ==
    IF policy = "Player 1 starts" THEN P1_MARK
    ELSE IF games % 2 = 0 THEN P1_MARK ELSE P2_MARK

\* C11 (autoplay starter policy): every autoplay turn that puts the first mark
\* on an empty board places P1's mark when 'Player 1 starts' is selected, and
\* with 'Players alternate' places P1's mark when the game is the 1st, 3rd, ...
\* of the series (an even number of games scored) and P2's mark otherwise.
C11_AutoStarterPolicy ==
    [][\A k \in AutoFirstTurns :
          log'.turns[k].mark = PolicyStarter(who_autostarts', prev_game_num')]_vars

\* An autoplay_* call found the queue empty and ran auto_stop('ended').
AutoEnded == log.op = "autoplay" /\ log.turns = << >>

\* A series has been started with the full queue and not been restarted.
InSeries == auto_start_stop = "Stop Autoplay"

C13_AutoplayTerminates ==
    /\ InSeries ~> AutoEnded
    /\ [](AutoplayIsDue => AutoplayResults # {})
    /\ [][/\ log'.op = "autoplay" =>
               IF auto_marks # << >>
               THEN Len(auto_marks') < Len(auto_marks)
               ELSE AutoEnded' /\ autoplay_calls' = << >> /\ after_id' = "None"
           /\ log'.op \in CallbackOps => log' \in CallbackLogs /\ log' # log]_vars

\* A series of several games has come to its end with nothing left to run.
C13_Witness ==
    /\ AutoEnded /\ InSeries
    /\ auto_marks = << >> /\ autoplay_calls = << >> /\ after_calls = {}
    /\ prev_game_num >= 2
    /\ status_windows = 1

\* C14 (autoplay minimum games): when a series of Autoplay random under
\* 'Player 1 starts', started with the full queue and left alone, has ended,
\* at least 2 games have been played.
C14_MinimumGames ==
    ( /\ AutoEnded /\ InSeries
      /\ curr_automode = "Autoplay random"
      /\ who_autostarts = "Player 1 starts" ) => prev_game_num >= 2

\* Such a series has ended after the fewest games: two games, both ties.
C14_Witness ==
    /\ AutoEnded /\ InSeries
    /\ curr_automode = "Autoplay random"
    /\ who_autostarts = "Player 1 starts"
    /\ prev_game_num = 2 /\ ties_num = 2

\* C15 (autoplay cancellation): once the user has stopped autoplay
\* (auto_command -> auto_stop('canceled')), no autoplay_* call runs until
\* autoplay is started again: none places a mark or takes a mark from the
\* queue.
C15_NoCallAfterCancel ==
    [][series.canceled => log'.op # "autoplay"]_vars

\* A callback of auto_flash_game is pending in a running series that has not
\* had the 5 turns a game needs to end: it was scheduled by a game of an
\* earlier series, before the stop.
StaleCallbackPending ==
    /\ after_calls # {}
    /\ InSeries /\ series.turns < 5

\* C16 (no corruption by stale callbacks): a flash_show, flash_erase or
\* auto_setup left over from a series that was stopped, when it runs during a
\* game of a series started after the stop, changes neither the squares nor
\* the mark queue nor the scores.
C16_StaleCallbacksHarmless ==
    [][( /\ StaleCallbackPending
         /\ turn_number(board_labels) > 0
         /\ log'.op \in {"flash_show", "flash_erase", "auto_setup"} ) =>
            /\ board_labels' = board_labels
            /\ auto_marks' = auto_marks
            /\ <<p1_points', p2_points', ties_num', prev_game_num'>>
                 = <<p1_points, p2_points, ties_num, prev_game_num>>]_vars

\* C17 (no strategy call on a full board): every turn of pc_turn or of an
\* autoplay_* method is played on a board with an empty square and places a
\* mark (play_random's loop ends), and no autoplay_* call runs on a board of
\* 9 marks.
C17_NoCallOnFullBoard ==
    [][/\ \A k \in DOMAIN log'.turns :
             log'.turns[k].who \in {"pc", "auto"} =>
                log'.turns[k].tn < 9 /\ log'.turns[k].n = 1
       /\ log'.op = "autoplay" => turn_number(board_labels) < 9]_vars

\* In PvPC the human has put the ninth mark on the board and pc_turn was not
\* called.
C17_Witness ==
    /\ mode_clicked = "pvpc" /\ log.op = "human_turn"
    /\ turn_number(board_labels) = 9
    /\ Len(log.turns) = 1
    /\ log.turns[1].who = "human" /\ log.turns[1].n = 1 /\ log.turns[1].tn = 8

\* C18 (no win before turn 5): a board of fewer than 5 marks on which a game
\* is played (not the winner's line shown by auto_flash_game) has no completed
\* line; and whenever a turn completes a line of a mark, check_winner runs for
\* that mark in the same callback: the guard turn_number() >= 5 skips none.
C18_NoWinBeforeTurn5 ==
    [][\A mark \in {P1_MARK, P2_MARK} :
          /\ (NoFlash' /\ turn_number(board_labels') < 5) =>
                ~HoldsALine(board_labels', mark)
          /\ ( /\ log'.turns # << >>
               /\ HoldsALine(board_labels', mark)
               /\ ~HoldsALine(board_labels, mark) ) => Checked(mark)]_vars

\* The earliest win: the fifth mark completes a line of Player 1 and the
\* check that follows it finds the line.
C18_Witness ==
    /\ turn_number(board_labels) = 5
    /\ HoldsALine(board_labels, P1_MARK)
    /\ log.checked = <<P1_MARK>>
    /\ winner_found /\ p1_points = 2 /\ prev_game_num = 1

\* The game on the board has been ended by check_winner: a side holds a line
\* or the board is full, and the game is flagged as over.
FinishedGame ==
    /\ winner_found
    /\ \/ turn_number(board_labels) = 9
       \/ \E mark \in {P1_MARK, P2_MARK} : HoldsALine(board_labels, mark)

\* C19 (finished games are frozen): while a finished game is on the board, no
\* callback adds a mark to it: a turn that places a mark in such a callback
\* is played on a board that has been cleared first (fewer than 5 marks).  In
\* PvPC, a callback in which the human's move was checked and left a line of
\* Player 1 or a full board contains no turn of the PC.
C19_FinishedGamesFrozen ==
    [][/\ FinishedGame =>
            \A k \in DOMAIN log'.turns :
               log'.turns[k].n > 0 => log'.turns[k].tn < 5
       /\ ( /\ log'.op = "human_turn" /\ mode_clicked = "pvpc"
            /\ Checked(P1_MARK)
            /\ \/ HoldsALine(board_labels', P1_MARK)
               \/ turn_number(board_labels') = 9 ) =>
               \A k \in DOMAIN log'.turns : log'.turns[k].who # "pc"]_vars

\* In PvPC the human has completed a line with squares still free, and the
\* PC has not replied.
C19_Witness ==
    /\ mode_clicked = "pvpc" /\ log.op = "human_turn"
    /\ HoldsALine(board_labels, P1_MARK) /\ winner_found
    /\ turn_number(board_labels) < 9
    /\ Len(log.turns) = 1 /\ log.turns[1].who = "human"

\* C20 (single winner): in every reachable state at most one of the two marks
\* holds a completed line on the board.
C20_SingleWinner ==
    ~(HoldsALine(board_labels, P1_MARK) /\ HoldsALine(board_labels, P2_MARK))

\* C21 (deterministic line choice): the line check_winner reports is fixed
\* by the board it runs on: any two outcomes of a click on a square, and any
\* two outcomes of the autoplay call that is due, that leave the same board
\* report the same combos as won.
C21_DeterministicLine ==
    /\ (~Urgent /\ (board_bound \/ keys_bound)) =>
          \A i \in Cells :
             \A s1, s2 \in human_turn(Called("human_turn"), i) :
                s1.board_labels = s2.board_labels => s1.log.combos = s2.log.combos
    /\ AutoplayIsDue =>
          \A s1, s2 \in AutoplayResults :
             s1.board_labels = s2.board_labels => s1.log.combos = s2.log.combos

\* The center player (center autoplay, PC that prefers the center) has moved.
CenterMoved == log.op \in {"Autoplay center", "PC plays center"}

\* The empty squares that complete a line of which `who` holds two squares.
OpenThirds(b, who) ==
    {i \in Cells : /\ b[i] = BLANK
                   /\ \E line \in Lines : i \in line /\ \A j \in line \ {i} : b[j] = who}

\* C22 (center-preferred strategy): whenever the center player moves, it
\* places exactly one mark, its own, on a square that was empty: on square 4
\* when square 4 was empty (whatever wins or blocks there were); otherwise on
\* a square that completes a line of its own when there is one; otherwise on
\* a square that blocks a line of the opponent when there is one; otherwise
\* on any empty square.  The first mark on an empty board is on square 4.
C22_CenterPreferred ==
    CenterMoved =>
        /\ Cardinality(Played) = 1
        /\ \A i \in Played : fn_input[i] = BLANK /\ board_labels[i] = Mover
        /\ IF fn_input[4] = BLANK THEN Played = {4}
           ELSE IF OpenThirds(fn_input, Mover) # {}
                THEN Played \subseteq OpenThirds(fn_input, Mover)
           ELSE IF OpenThirds(fn_input, Opponent(Mover)) # {}
                THEN Played \subseteq OpenThirds(fn_input, Opponent(Mover))
           ELSE TRUE
        /\ turn_number(fn_input) = 0 => board_labels[4] = Mover

\* The center player has taken the empty center although it could have
\* completed a line of its own elsewhere.
C22_Witness ==
    /\ CenterMoved
    /\ fn_input[4] = BLANK /\ board_labels[4] = Mover
    /\ OpenThirds(fn_input, Mover) # {}
    /\ OpenThirds(fn_input, Opponent(Mover)) # {}

\* play_rudiments itself was applied.
RudimentsApplied == log.op = "play_rudiments"

\* C23 (rudiments block): when play_rudiments runs for a mover that has no
\* line with two marks of its own and an empty third square, while the
\* opponent has such a line, exactly one mark of the mover is placed, on the
\* empty square of such a line of the opponent; when neither side has such a
\* line, play_rudiments places nothing.
C23_RudimentsBlock ==
    (RudimentsApplied /\ OpenThirds(fn_input, Mover) = {}) =>
        IF OpenThirds(fn_input, Opponent(Mover)) # {}
        THEN /\ Cardinality(Played) = 1
             /\ Played \subseteq OpenThirds(fn_input, Opponent(Mover))
             /\ \A i \in Played : board_labels[i] = Mover
        ELSE board_labels = fn_input

\* play_rudiments has blocked one of two lines the opponent had open.
C23_Witness ==
    /\ RudimentsApplied
    /\ OpenThirds(fn_input, Mover) = {}
    /\ Cardinality(OpenThirds(fn_input, Opponent(Mover))) = 2
    /\ Cardinality(Played) = 1
    /\ Played \subseteq OpenThirds(fn_input, Opponent(Mover))

\* play_rudiments has been applied where neither side had a line to complete
\* and has left the board as it was.
C23_WitnessNothing ==
    /\ RudimentsApplied
    /\ turn_number(fn_input) >= 4
    /\ OpenThirds(fn_input, Mover) = {} /\ OpenThirds(fn_input, Opponent(Mover)) = {}
    /\ board_labels = fn_input

\* C24 (opening defense): the tactics player's reply to the opening mark (a
\* board of one mark, the opponent's) is on square 4 when 4 is empty, whether
\* the opener is on a side or on a corner; when the opener holds square 4,
\* the reply is on a corner.
C24_OpeningDefense ==
    (TacticsMoved /\ turn_number(fn_input) = 1) =>
        /\ Cardinality(Played) = 1
        /\ \A i \in Played : board_labels[i] = Mover
        /\ IF fn_input[4] = BLANK THEN Played = {4}
           ELSE Played \subseteq Range(CORNERS)

\* The tactics player has answered an opening on a corner with the center.
C24_Witness ==
    /\ TacticsMoved /\ turn_number(fn_input) = 1
    /\ \E c \in Range(CORNERS) : fn_input[c] = Opponent(Mover)
    /\ board_labels[4] = Mover

\* The corners that `table` (ORTHO_SIDES, META_POSITIONS) maps to a pair of
\* squares both held by `who`, and that are empty.
MappedCorners(b, table, who) ==
    { table[k][1] : k \in { j \in 1..Len(table) :
                              /\ b[table[j][1]] = BLANK
                              /\ \A i \in Range(table[j][2]) : b[i] = who } }

\* C25 as stated (two-side defense): whenever the tactics player moves where
\* no winning or blocking move exists, the center is occupied, the opponent
\* occupies one of the pairs of sides {1,3}, {1,5}, {3,7}, {5,7} and the
\* corner mapped to the pair (0, 2, 6, 8) is empty, it plays that corner.
C25_TwoSideDefense ==
    (TacticsMoved /\ NoWinNoBlock(fn_input, Mover) /\ fn_input[4] # BLANK
        /\ MappedCorners(fn_input, ORTHO_SIDES, Opponent(Mover)) # {}) =>
        /\ Cardinality(Played) = 1
        /\ Played \subseteq MappedCorners(fn_input, ORTHO_SIDES, Opponent(Mover))
        /\ \A i \in Played : board_labels[i] = Mover

\* The tactics player has answered an opponent on two adjacent sides, the
\* center taken, with the corner the two sides share.
C25_Witness ==
    /\ TacticsMoved /\ NoWinNoBlock(fn_input, Mover) /\ fn_input[4] # BLANK
    /\ MappedCorners(fn_input, ORTHO_SIDES, Opponent(Mover)) # {}
    /\ Played \subseteq MappedCorners(fn_input, ORTHO_SIDES, Opponent(Mover))
    /\ Cardinality(Played) = 1

\* The computer turn of the callback now ending, in a session of the program
\* (Spec): the method that played it, its mark, the board it found and the
\* squares it changed.  A click in PvPC places the human's X before the PC
\* moves; new_game and auto_start clear the board before the turn.
SessionTactics ==
    /\ \E k \in DOMAIN log'.turns : log'.turns[k].who \in {"pc", "auto"}
    /\ IF log'.op = "autoplay" THEN Head(autoplay_calls) = "Autoplay strategy"
       ELSE IF log'.op = "auto_command" THEN mode_clicked = "Autoplay strategy"
       ELSE pc_pref = "PC plays strategy"

SessionMover == log'.turns[Len(log'.turns)].mark

SessionBefore ==
    IF log'.op \in {"new_game", "auto_command"} THEN EmptyBoard
    ELSE [j \in Cells |-> IF board_labels[j] = BLANK /\ board_labels'[j] = P1_MARK
                                /\ log'.op = "human_turn"
                          THEN P1_MARK ELSE board_labels[j]]

SessionPlayed == Changed(SessionBefore, board_labels')

\* C25 in sessions of the program: the same, for the turns pc_turn and
\* autoplay_strategy play in Spec, interleavings of the user included.
C25_TwoSideDefenseInSessions ==
    [][(SessionTactics /\ NoWinNoBlock(SessionBefore, SessionMover)
          /\ SessionBefore[4] # BLANK
          /\ MappedCorners(SessionBefore, ORTHO_SIDES, Opponent(SessionMover)) # {}) =>
          /\ Cardinality(SessionPlayed) = 1
          /\ SessionPlayed \subseteq
                MappedCorners(SessionBefore, ORTHO_SIDES, Opponent(SessionMover))]_vars

\* An earlier rule of the tactics player applies on board b for `mark`: a
\* win or a block, the answer to the first turn, the center defense, or the
\* two-side defense.
EarlierRuleThanMeta(b, mark) ==
    \/ ~NoWinNoBlock(b, mark)
    \/ turn_number(b) = 1 /\ b[4] = BLANK
    \/ b[4] = BLANK /\ \E k \in 1..Len(SIDES) : b[SIDES[k]] = Opponent(mark)
    \/ MappedCorners(b, ORTHO_SIDES, Opponent(mark)) # {}

\* C26 (corner+side defense): whenever the tactics player moves after the
\* opening move where no earlier rule (win, block, center defense, two-side
\* defense) applies, the opponent occupies one of the corner+side pairs
\* {2,3}, {0,5}, {3,8}, {5,6} and the mapped corner (0, 2, 6, 8) is empty, it
\* plays that corner.
C26_CornerSideDefense ==
    (TacticsMoved /\ turn_number(fn_input) > 0
        /\ ~EarlierRuleThanMeta(fn_input, Mover)
        /\ MappedCorners(fn_input, META_POSITIONS, Opponent(Mover)) # {}) =>
        /\ Cardinality(Played) = 1
        /\ Played \subseteq MappedCorners(fn_input, META_POSITIONS, Opponent(Mover))
        /\ \A i \in Played : board_labels[i] = Mover

\* The tactics player has answered a corner and a non-adjacent side of the
\* opponent with the mapped corner.
C26_Witness ==
    /\ TacticsMoved /\ ~EarlierRuleThanMeta(fn_input, Mover)
    /\ MappedCorners(fn_input, META_POSITIONS, Opponent(Mover)) # {}
    /\ Cardinality(Played) = 1
    /\ Played \subseteq MappedCorners(fn_input, META_POSITIONS, Opponent(Mover))

\* The opponent of `mark` holds both squares of a pair of PARA_CORNERS.
OnOppositeCorners(b, mark) ==
    \E k \in 1..Len(PARA_CORNERS) :
       \A i \in Range(PARA_CORNERS[k]) : b[i] = Opponent(mark)

\* C27 as stated (opposite-corners defense): whenever the tactics player
\* moves after the opening move where no earlier rule (win, block, center
\* defense, two-side defense, corner+side defense) applies and the opponent
\* occupies both squares of a diagonal pair of corners (0 and 8, or 2 and 6),
\* the mark it places goes on a side square (1, 3, 5 or 7) that was empty.
C27_OppositeCorners ==
    (TacticsMoved /\ turn_number(fn_input) > 0
        /\ ~EarlierRuleThanMeta(fn_input, Mover)
        /\ MappedCorners(fn_input, META_POSITIONS, Opponent(Mover)) = {}
        /\ OnOppositeCorners(fn_input, Mover)) =>
        /\ Cardinality(Played) = 1
        /\ Played \subseteq Range(SIDES)
        /\ \A i \in Played : fn_input[i] = BLANK /\ board_labels[i] = Mover

\* The tactics player holds the center between the opponent's opposite
\* corners and has answered with a side.
C27_Witness ==
    /\ TacticsMoved
    /\ ~EarlierRuleThanMeta(fn_input, Mover)
    /\ OnOppositeCorners(fn_input, Mover)
    /\ Cardinality(Played) = 1 /\ Played \subseteq Range(SIDES)
    /\ fn_input[4] = Mover

\* The corners of board b that are empty.
OpenCorners(b) == {c \in Range(CORNERS) : b[c] = BLANK}

\* C28 (corner-fill before random): whenever the tactics player moves after
\* the opening move, it places one mark on an empty square, chosen by the
\* first of these that applies: a win, a block, a rule of play_defense, an
\* empty corner; only when none applies (no win, no block, no defense rule
\* and no empty corner) does the mark go on any empty square, the random
\* fallback.
C28_CornerFillBeforeRandom ==
    (TacticsMoved /\ turn_number(fn_input) > 0) =>
        /\ Cardinality(Played) = 1
        /\ \A i \in Played : fn_input[i] = BLANK /\ board_labels[i] = Mover
        /\ IF OpenThirds(fn_input, Mover) # {}
           THEN Played \subseteq OpenThirds(fn_input, Mover)
           ELSE IF OpenThirds(fn_input, Opponent(Mover)) # {}
           THEN Played \subseteq OpenThirds(fn_input, Opponent(Mover))
           ELSE IF play_defense(fn_input, turn_number(fn_input), Mover) # {fn_input}
           THEN board_labels \in play_defense(fn_input, turn_number(fn_input), Mover)
           ELSE OpenCorners(fn_input) # {} => Played \subseteq OpenCorners(fn_input)

\* The tactics player has filled a corner where no rule applied and squares
\* other than corners were empty as well.
C28_Witness ==
    /\ TacticsMoved /\ turn_number(fn_input) >= 3
    /\ NoWinNoBlock(fn_input, Mover)
    /\ play_defense(fn_input, turn_number(fn_input), Mover) = {fn_input}
    /\ Played \subseteq OpenCorners(fn_input) /\ Cardinality(Played) = 1
    /\ \E i \in Range(SIDES) : fn_input[i] = BLANK

\* The tactics player has played the random fallback: no rule applied and no
\* corner was empty.
C28_WitnessRandom ==
    /\ TacticsMoved
    /\ NoWinNoBlock(fn_input, Mover)
    /\ play_defense(fn_input, turn_number(fn_input), Mover) = {fn_input}
    /\ OpenCorners(fn_input) = {}
    /\ Cardinality(Played) = 1

\* The callback now ending played an autoplay turn (an autoplay_* call that
\* found a mark in the queue, from after() or from auto_start).
AutoTurnPlayed == \E k \in DOMAIN log'.turns : log'.turns[k].who = "auto"

\* C29 (autoplay game turnover ordering): an autoplay_* call plays its turn
\* only when the callbacks of the game that ended before it (flash_show,
\* flash_erase, auto_setup) have all run; auto_setup finds the queue without
\* the mark that ended the game (the mark at its head is not the one played
\* last); and the first turn of every autoplay game (the first after the
\* board was cleared for it) is played on an empty board with winner_found
\* false.
C29_TurnoverOrdering ==
    [][/\ AutoTurnPlayed => after_calls = {}
       /\ (AutoTurnPlayed /\ log'.op = "autoplay") => ~winner_found
       /\ (AutoTurnPlayed /\ starters.cur = "") =>
             \A k \in DOMAIN log'.turns : log'.turns[k].tn = 0]_vars

\* C30 (new game in human modes): new_game in mode PvP or PvPC sets
\* winner_found to false and leaves both sides' points, the ties count and the
\* games played as they were; in PvPC after an odd number of games the board
\* it leaves holds exactly one mark, the PC's, and in every other case all 9
\* squares are empty (in PvPC the turn is announced for Player 1).
C30_NewGameHumanModes ==
    [][(log'.op = "new_game" /\ mode_clicked \in PvModes) =>
          /\ winner_found' = FALSE
          /\ p1_points' = p1_points /\ p2_points' = p2_points
          /\ ties_num' = ties_num /\ prev_game_num' = prev_game_num
          /\ IF mode_clicked = "pvpc" /\ prev_game_num % 2 # 0
             THEN /\ turn_number(board_labels') = 1
                  /\ \E i \in Cells : board_labels'[i] = P2_MARK
             ELSE /\ board_labels' = EmptyBoard
                  /\ mode_clicked = "pvpc" => whose_turn' = P1Plays]_vars

\* new_game has just run in PvPC after an odd number of games, on a session
\* with points on the score board, and the PC has opened the game.
C30_Witness ==
    /\ log.op = "new_game" /\ mode_clicked = "pvpc"
    /\ prev_game_num % 2 # 0
    /\ p1_points + p2_points + ties_num > 0
    /\ turn_number(board_labels) = 1
    /\ \E i \in Cells : board_labels[i] = P2_MARK

\* new_game has just run in PvP after a scored game and left the board empty.
C30_WitnessPvp ==
    /\ log.op = "new_game" /\ mode_clicked = "pvp"
    /\ prev_game_num > 0 /\ p1_points + p2_points + ties_num > 0
    /\ board_labels = EmptyBoard /\ ~winner_found

\* A game is in progress by the test of mode_control: marks on the board and
\* no winner found.
InProgress == turn_number(board_labels) > 0 /\ ~winner_found

\* C31 (mode change blocked mid-game): a play-mode selection made while a PvP
\* or PvPC game is in progress leaves the board, both sides' points, the ties
\* count, the games played and the play mode as they were; a selection made
\* when no game is in progress sets points, ties and games played to 0 and
\* clears the board.
C31_ModeChangeBlocked ==
    [][log'.op = "mode_control" =>
          /\ (InProgress /\ mode_clicked \in PvModes) =>
                /\ board_labels' = board_labels
                /\ p1_points' = p1_points /\ p2_points' = p2_points
                /\ ties_num' = ties_num /\ prev_game_num' = prev_game_num
                /\ mode_clicked' = mode_clicked
          /\ ~InProgress =>
                /\ p1_points' = 0 /\ p2_points' = 0
                /\ ties_num' = 0 /\ prev_game_num' = 0
                /\ board_labels' = EmptyBoard]_vars

\* A mode selection was just ignored in a PvPC game the PC opened (New Game
\* had re-enabled both play-mode buttons): the PC's mark and the session's
\* points are still there and the PvP button is now disabled.
C31_Witness ==
    /\ log.op = "mode_control" /\ mode_clicked = "pvpc"
    /\ turn_number(board_labels) = 1 /\ ~winner_found
    /\ prev_game_num % 2 # 0
    /\ p1_points + p2_points + ties_num > 0
    /\ ~widget_state["pvp_mode"]

\* A mode selection with no game in progress has just cleared the score board.
C31_WitnessReset ==
    /\ log.op = "mode_control" /\ mode_changes = 1
    /\ mode_clicked = "pvpc" /\ board_labels = EmptyBoard
    /\ prev_game_num = 0

\* The callback now ending ran auto_stop: 'canceled' from the Stop branch of
\* auto_command, 'ended' from an autoplay_* call that found the queue empty.
StopCanceled == log'.op = "auto_command" /\ auto_start_stop # "Start Autoplay"
StopEnded == log'.op = "autoplay" /\ auto_marks = << >>

\* C32 (stop abandons the game in progress): a callback that runs auto_stop,
\* 'canceled' or 'ended', leaves the board empty and leaves both sides'
\* points, the ties count and the games played as they were, whatever game
\* was on the board.
C32_StopAbandonsGame ==
    [][(StopCanceled \/ StopEnded) =>
          /\ board_labels' = EmptyBoard
          /\ p1_points' = p1_points /\ p2_points' = p2_points
          /\ ties_num' = ties_num /\ prev_game_num' = prev_game_num]_vars

\* Stop Autoplay was just clicked during a game that had been started and not
\* scored, after an earlier game of the series had been counted.
C32_Witness ==
    /\ log.op = "auto_command" /\ series.canceled
    /\ starters.cur # "" /\ ~starters.over
    /\ prev_game_num > 0
    /\ board_labels = EmptyBoard /\ status_windows > 0

\* An autoplay call has just found the queue empty and ended the series.
C32_WitnessEnded ==
    /\ log.op = "autoplay" /\ log.turns = << >> /\ auto_marks = << >>
    /\ ~series.canceled /\ series.turns > 0
    /\ board_labels = EmptyBoard /\ status_windows > 0

\* The callback now ending ran auto_start.
SeriesStarted ==
    log'.op = "auto_command" /\ auto_start_stop = "Start Autoplay"
        /\ mode_clicked \in AutoModes

\* C33 (series reset on start): every auto_start begins its series with
\* points, ties and games played at 0, winner_found false, an empty board and
\* the full queue of alternating marks that starts with P1's mark: the first
\* call, made by auto_start itself, plays P1's mark on the empty board and
\* leaves the rest of the full queue, whatever an earlier series left behind.
C33_SeriesResetOnStart ==
    [][SeriesStarted =>
          /\ p1_points' = 0 /\ p2_points' = 0
          /\ ties_num' = 0 /\ prev_game_num' = 0
          /\ winner_found' = FALSE
          /\ Len(log'.turns) = 1
          /\ log'.turns[1].who = "auto" /\ log'.turns[1].mark = P1_MARK
          /\ log'.turns[1].tn = 0 /\ log'.turns[1].n = 1
          /\ turn_number(board_labels') = 1
          /\ \A k \in 1..(2 * MaxMarks) :
                FullMarks[k] = IF k % 2 = 1 THEN P1_MARK ELSE P2_MARK
          /\ auto_marks' = Tail(FullMarks)]_vars

\* A series has just been started while the flash_erase of a game of an
\* earlier series is still pending.
C33_Witness ==
    /\ log.op = "auto_command" /\ auto_start_stop = "Stop Autoplay"
    /\ "flash_erase" \in after_calls
    /\ prev_game_num = 0 /\ p1_points = 0 /\ p2_points = 0 /\ ties_num = 0
    /\ turn_number(board_labels) = 1
    /\ auto_marks = Tail(FullMarks)

\* The score board balances (points are counted in half points): the two
\* sides' points add up to the games played, the ties are at most the games
\* played, and each side's points less half the ties is a whole number of
\* wins, not negative.
ScoreConserved ==
    /\ p1_points + p2_points = 2 * prev_game_num
    /\ ties_num <= prev_game_num
    /\ p1_points >= ties_num /\ (p1_points - ties_num) % 2 = 0
    /\ p2_points >= ties_num /\ (p2_points - ties_num) % 2 = 0

\* The callback now ending placed a mark and left a board on which no game
\* has ended: no line is complete and a square is still empty.
MarkPlacedGameOn ==
    /\ \E k \in DOMAIN log'.turns : log'.turns[k].n > 0
    /\ ~ScoreReset
    /\ ~HoldsALine(board_labels', P1_MARK) /\ ~HoldsALine(board_labels', P2_MARK)
    /\ turn_number(board_labels') < 9

\* C34 (score conservation): in every reachable state of every mode the
\* score board balances (P1 points + P2 points = games played, ties <= games
\* played, each side's points less half the ties is a non-negative whole
\* number), and a callback that places a mark without ending a game changes
\* none of the counters.
C34_ScoreConservation ==
    /\ ScoreConserved
    /\ [][/\ ScoreConserved'
          /\ MarkPlacedGameOn =>
                /\ p1_points' = p1_points /\ p2_points' = p2_points
                /\ ties_num' = ties_num /\ prev_game_num' = prev_game_num]_vars

\* A click has just tied a game of a human mode: half a point to each side.
C34_Witness ==
    /\ log.op = "human_turn" /\ mode_clicked \in PvModes
    /\ turn_number(board_labels) = 9
    /\ prev_game_num = 1 /\ ties_num = 1
    /\ p1_points = 1 /\ p2_points = 1

\* An autoplay series in which all three results have been scored: P1 and P2
\* have each won a game and a game was tied.
C34_WitnessSeries ==
    /\ ties_num > 0 /\ p1_points > ties_num /\ p2_points > ties_num
    /\ prev_game_num = 3 /\ turn_number(board_labels) > 0

\* A mark was just placed on a board with scored games behind it and the
\* game goes on.
C34_WitnessMark ==
    /\ log.op \in {"human_turn", "autoplay"} /\ log.turns # << >>
    /\ prev_game_num > 0 /\ ~winner_found
    /\ turn_number(board_labels) \in 1..8

\* C35 (single pending tick): in every reachable state at most one autoplay
\* call is scheduled, and when one is scheduled after_id refers to it: there
\* are never two chains of autoplay calls.
C35_SinglePendingTick ==
    /\ Len(autoplay_calls) <= 1
    /\ autoplay_calls # << >> => after_id = "live"

\* human_turn can be invoked on an empty square in mode PvPC: the board is
\* bound to clicks or keys and a square is empty.
PvpcClickable ==
    /\ mode_clicked = "pvpc"
    /\ board_bound \/ keys_bound
    /\ \E i \in Cells : board_labels[i] = BLANK

\* It is the human's turn by the test of human_turn: the parity of the turn
\* count is the parity of the games played.
HumansTurn == turn_number(board_labels) % 2 = prev_game_num % 2

\* C36 (PvPC turn parity): in every reachable PvPC state in which human_turn
\* can be invoked on an empty square it is the human's turn (turn-count
\* parity = games-played parity); every click on an empty square in PvPC
\* places exactly one mark of P1 and is followed in the same callback by
\* exactly one mark of the PC (P2's) unless P1's mark ended the game; the
\* human never places P2's mark and the PC never places P1's.
C36_PvpcTurnParity ==
    /\ PvpcClickable => HumansTurn
    /\ [][/\ PvpcClickable' => HumansTurn'
          /\ (log'.op = "human_turn" /\ mode_clicked = "pvpc" /\ log'.turns # << >>) =>
                /\ log'.turns[1].who = "human" /\ log'.turns[1].n = 1
                /\ IF Len(log'.turns) = 1 THEN prev_game_num' > prev_game_num
                   ELSE /\ Len(log'.turns) = 2
                        /\ log'.turns[2].who = "pc" /\ log'.turns[2].n = 1
          /\ \A k \in DOMAIN log'.turns :
                /\ (log'.turns[k].who = "human" /\ mode_clicked = "pvpc")
                      => (log'.turns[k].mark = P1_MARK /\ log'.turns[k].legal)
                /\ log'.turns[k].who = "pc"
                      => (log'.turns[k].mark = P2_MARK /\ log'.turns[k].legal)]_vars

====
